---------------------------- MODULE Spec2Model ----------------------------
(***************************************************************************)
(* A model of the nucleic-acid (helix) library:                            *)
(*   - BitsVec, the bit-packed vector      (src/src/rust-fillings/src/lib.rs) *)
(*   - the induced-sorting suffix array    (src/src/sa.rs)                 *)
(*   - bwt / ibwt / FMIndex                (src/src/bwt.rs)                *)
(*                                                                         *)
(* Machine words are natural numbers below 2^usize_bits.  The model's word *)
(* is a few bits wide instead of 64 so that every element width and every  *)
(* word-boundary case can be enumerated; all the code's arithmetic is      *)
(* kept relative to that width (max_bits).                                 *)
(***************************************************************************)
EXTENDS Integers, Sequences, FiniteSets, TLC

(***************************************************************************)
(* Bounds of the model.                                                    *)
(***************************************************************************)
\* width of the machine word (usize::MAX.count_ones() in the source) in the
\* BitsVec specification
UsizeBits == 6
\* width of the machine word in the suffix array and index specifications:
\* the texts of the examples need vectors of up to six bits
TextUsizeBits == 8
\* push is offered to a vector of the BitsVec specification while it holds
\* at most this many payload bits
MaxTotalBits == 8
\* extend_with_element and with_elements are called with a final length of at
\* most this many payload bits (and at most this many elements)
MaxExtendBits == 13
\* width of a suffix array slot (32 in the source, where the word has 64)
SlotBits == 5
\* the stacks are offered a push_back while they hold fewer frames than this
MaxFrames == 3
\* suffix_array is given every input of 1..MaxLen bytes in 0..MaxByte
MaxLen == 5
MaxByte == 3
\* the index is built for every text of 1..MaxText bytes in 0..MaxByte and
\* asked every query of 0..MaxPattern bytes in 0..MaxByte
MaxText == 3
MaxPattern == 2

VARIABLES
    overflow_checks,  \* TRUE: a build that panics on shift overflow (debug)
    usize_bits,       \* the width of usize in the build
    vec,              \* the BitsVec under test, or NoVec before new()
    shadow,           \* the sequence of values the vector is meant to hold
    last,             \* the last call made on the vector and its outcome
    cur_input,        \* the input of suffix_array
    pc,               \* the position in suffix_array_stacked
    cur_sa,           \* its variable sa, the level being worked on
    cur_is_recursive, \* its variable is_recursive
    cur_stack,        \* its stack of levels
    result,           \* what suffix_array returned
    text,             \* the text given to bwt or FMIndex::new
    phase,            \* what has been done with the text
    bw,               \* the Burrows-Wheeler transform of the text
    fm,               \* the FMIndex
    answer,           \* the query made and its answer
    dump,             \* the file-backed stack (StackDump), or NoDump
    files,            \* the scratch files of the working directory
    popped            \* what the last pop_back returned, on both stacks

bitsvec_vars == <<vec, shadow, last>>

sa_vars == <<cur_input, pc, cur_sa, cur_is_recursive, cur_stack, result>>

index_vars == <<text, phase, bw, fm, answer>>

stack_vars == <<dump, files, popped>>

vars == <<overflow_checks, usize_bits, bitsvec_vars, sa_vars, index_vars, stack_vars>>

\* a let binding: let([x \in {e} |-> body]) is the body with x bound to the
\* value of e
let(binding) == binding[CHOOSE arg \in DOMAIN binding : TRUE]

(***************************************************************************)
(* Word arithmetic.  A shift by max_bits or more panics in a build with    *)
(* overflow checks and uses the shift amount modulo the width otherwise.   *)
(***************************************************************************)
Pow2(n) == 2 ^ n

WordMod == Pow2(usize_bits)

shl(x, k) == (x * Pow2(k % usize_bits)) % WordMod

shr(x, k) == x \div Pow2(k % usize_bits)

shift_overflows(k) == overflow_checks /\ k >= usize_bits

RECURSIVE bitand(_, _)
bitand(a, b) ==
    IF a = 0 \/ b = 0 THEN 0
    ELSE (a % 2) * (b % 2) + 2 * bitand(a \div 2, b \div 2)

RECURSIVE bitor(_, _)
bitor(a, b) ==
    IF a = 0 THEN b
    ELSE IF b = 0 THEN a
    ELSE (IF a % 2 = 1 \/ b % 2 = 1 THEN 1 ELSE 0) + 2 * bitor(a \div 2, b \div 2)

bitnot(a) == WordMod - 1 - a

\* Vec::truncate: keep the first n words (no-op when n >= len)
vec_truncate(s, n) == IF n >= Len(s) THEN s ELSE SubSeq(s, 1, n)

(***************************************************************************)
(* BitsVec.  inner is 1-indexed here: inner[idx + 1] is the code's         *)
(* self.inner[idx].                                                        *)
(***************************************************************************)
NoVec == [inner |-> <<>>, units |-> 0, bits |-> 0, max_bits |-> 0, leftover |-> 0]

new_panics(bits) == ~(bits < usize_bits)

new(bits) ==
    [inner |-> <<0>>, units |-> 0, bits |-> bits,
     max_bits |-> usize_bits, leftover |-> usize_bits]

\* assert!(value >> self.bits == 0)
push_rejects(self, value) == ~(value >= 0 /\ shr(value, self.bits) = 0)

push_panics(self, value) ==
    \/ push_rejects(self, value)
    \/ /\ self.leftover >= self.bits
       /\ shift_overflows(self.leftover - self.bits)

\* push as it would be without the write of the value's high bits into the
\* current word (the variant C6 has to tell from push)
push_without_carry(self, value) ==
    LET idx == Len(self.inner) - 1 IN
    IF self.leftover < self.bits
    THEN LET left   == self.bits - self.leftover
             value1 == IF self.leftover # 0
                       THEN bitand(value, shl(1, left) - 1)
                       ELSE value
             inner2 == Append(self.inner, 0)
             leftover1 == self.max_bits - left
             idx1   == idx + 1
             value2 == shl(value1, leftover1)
         IN  [self EXCEPT !.inner = [inner2 EXCEPT ![idx1 + 1] = bitor(@, value2)],
                          !.leftover = leftover1,
                          !.units = self.units + 1]
    ELSE LET leftover1 == self.leftover - self.bits
             value2 == shl(value, leftover1)
         IN  [self EXCEPT !.inner = [self.inner EXCEPT ![idx + 1] = bitor(@, value2)],
                          !.leftover = leftover1,
                          !.units = self.units + 1]

push(self, value) ==
    LET idx == Len(self.inner) - 1 IN
    IF self.leftover < self.bits
    THEN LET left   == self.bits - self.leftover
             inner1 == [self.inner EXCEPT ![idx + 1] = bitor(@, shr(value, left))]
             value1 == IF self.leftover # 0
                       THEN bitand(value, shl(1, left) - 1)
                       ELSE value
             inner2 == Append(inner1, 0)
             leftover1 == self.max_bits - left
             idx1   == idx + 1
             value2 == shl(value1, leftover1)
         IN  [self EXCEPT !.inner = [inner2 EXCEPT ![idx1 + 1] = bitor(@, value2)],
                          !.leftover = leftover1,
                          !.units = self.units + 1]
    ELSE LET leftover1 == self.leftover - self.bits
             value2 == shl(value, leftover1)
         IN  [self EXCEPT !.inner = [self.inner EXCEPT ![idx + 1] = bitor(@, value2)],
                          !.leftover = leftover1,
                          !.units = self.units + 1]

\* assert!(i < self.units)
get_rejects(self, i) == ~(i >= 0 /\ i < self.units)

get_panics(self, i) ==
    \/ get_rejects(self, i)
    \/ LET pos  == i * self.bits
           bits == pos % self.max_bits
           diff == self.max_bits - bits
       IN  \/ bits # 0 /\ shift_overflows(diff)
           \/ diff >= self.bits /\ shift_overflows(diff - self.bits)

get(self, i) ==
    LET pos  == i * self.bits
        idx  == pos \div self.max_bits
        bits == pos % self.max_bits
        diff == self.max_bits - bits
        val0 == self.inner[idx + 1]
        val  == IF bits # 0 THEN bitand(val0, shl(1, diff) - 1) ELSE val0
    IN  IF diff >= self.bits
        THEN shr(val, diff - self.bits)
        ELSE LET shift == self.bits - diff
                 lastw == shr(self.inner[idx + 2], self.max_bits - shift)
             IN  bitor(shl(val, shift), lastw)

\* Option<T>: <<>> is None, <<x>> is Some(x)
checked_get(self, i) ==
    IF i >= self.units THEN <<>> ELSE <<get(self, i)>>

\* set's assertions without the one on the value (the variant C10 has to
\* tell from set_rejects)
set_rejects_index_only(self, i, value) ==
    ~(i >= 0 /\ i < self.units)

\* the two assertions of set, in the code's order
set_rejects(self, i, value) ==
    \/ ~(i >= 0 /\ i < self.units)
    \/ ~(value >= 0 /\ shr(value, self.bits) = 0)

set_panics(self, i, value) ==
    \/ set_rejects(self, i, value)
    \/ LET pos  == i * self.bits
           bits == pos % self.max_bits
           diff == self.max_bits - bits
       IN  diff >= self.bits /\ shift_overflows(diff - self.bits)

\* set as it would be with an empty mask for the bits before the element
\* (the variant C7 has to tell from set)
set_with_empty_mask(self, i, value) ==
    LET pos  == i * self.bits
        idx  == pos \div self.max_bits
        bits == pos % self.max_bits
        diff == self.max_bits - bits
        val  == self.inner[idx + 1]
    IN  IF diff >= self.bits
        THEN LET shift == diff - self.bits
                 lastb == bitand(val, shl(1, shift) - 1)
                 val2  == shl(value, shift)
             IN  [self EXCEPT !.inner = [self.inner EXCEPT ![idx + 1] = bitor(val2, lastb)]]
        ELSE LET shift  == self.bits - diff
                 val1   == bitand(val, bitnot(shl(1, diff) - 1))
                 inner1 == [self.inner EXCEPT ![idx + 1] = bitor(val1, shr(value, shift))]
                 lastb  == bitand(value, shl(1, shift) - 1)
                 shift1 == self.max_bits - shift
                 inner2 == [inner1 EXCEPT ![idx + 2] = bitand(@, shl(1, shift1) - 1)]
                 inner3 == [inner2 EXCEPT ![idx + 2] = bitor(@, shl(lastb, shift1))]
             IN  [self EXCEPT !.inner = inner3]

set(self, i, value) ==
    LET pos  == i * self.bits
        idx  == pos \div self.max_bits
        bits == pos % self.max_bits
        diff == self.max_bits - bits
        val  == self.inner[idx + 1]
    IN  IF diff >= self.bits
        THEN LET shift == diff - self.bits
                 lastb == bitand(val, shl(1, shift) - 1)
                 mask  == IF bits = 0 THEN 0 ELSE shl(shl(1, bits) - 1, diff)
                 val1  == bitand(val, mask)
                 val2  == bitor(val1, shl(value, shift))
             IN  [self EXCEPT !.inner = [self.inner EXCEPT ![idx + 1] = bitor(val2, lastb)]]
        ELSE LET shift  == self.bits - diff
                 val1   == bitand(val, bitnot(shl(1, diff) - 1))
                 inner1 == [self.inner EXCEPT ![idx + 1] = bitor(val1, shr(value, shift))]
                 lastb  == bitand(value, shl(1, shift) - 1)
                 shift1 == self.max_bits - shift
                 inner2 == [inner1 EXCEPT ![idx + 2] = bitand(@, shl(1, shift1) - 1)]
                 inner3 == [inner2 EXCEPT ![idx + 2] = bitor(@, shl(lastb, shift1))]
             IN  [self EXCEPT !.inner = inner3]

\* assert!(length < self.units)
truncate_rejects(self, length) == ~(length >= 0 /\ length < self.units)

\* truncate as it would be without the mask on the last word kept (the
\* variant C8 has to tell from truncate)
truncate_without_mask(self, length) ==
    LET bits     == length * self.bits
        new_len0 == bits \div self.max_bits
        used     == bits % self.max_bits
        new_len  == IF used > 0 THEN new_len0 + 1 ELSE new_len0
        inner1   == vec_truncate(self.inner, new_len)
    IN  IF used > 0
        THEN [self EXCEPT !.units = length,
                          !.leftover = self.max_bits - used,
                          !.inner = inner1]
        ELSE [self EXCEPT !.units = length,
                          !.leftover = self.max_bits,
                          !.inner = Append(inner1, 0)]

\* truncate as it would be without the empty word appended after a
\* truncation that ends on a word boundary (the variant C17 has to tell from
\* truncate)
truncate_without_spare_word(self, length) ==
    LET bits     == length * self.bits
        new_len0 == bits \div self.max_bits
        used     == bits % self.max_bits
        new_len  == IF used > 0 THEN new_len0 + 1 ELSE new_len0
        inner1   == vec_truncate(self.inner, new_len)
    IN  IF used > 0
        THEN LET leftover1 == self.max_bits - used
             IN  [self EXCEPT
                    !.units = length,
                    !.leftover = leftover1,
                    !.inner = [inner1 EXCEPT ![new_len] =
                                 bitand(@, shl(shl(1, used) - 1, leftover1))]]
        ELSE [self EXCEPT !.units = length,
                          !.leftover = self.max_bits,
                          !.inner = inner1]

truncate(self, length) ==
    LET bits     == length * self.bits
        new_len0 == bits \div self.max_bits
        used     == bits % self.max_bits
        new_len  == IF used > 0 THEN new_len0 + 1 ELSE new_len0
        inner1   == vec_truncate(self.inner, new_len)
    IN  IF used > 0
        THEN LET leftover1 == self.max_bits - used
             IN  [self EXCEPT
                    !.units = length,
                    !.leftover = leftover1,
                    !.inner = [inner1 EXCEPT ![new_len] =
                                 bitand(@, shl(shl(1, used) - 1, leftover1))]]
        ELSE [self EXCEPT !.units = length,
                          !.leftover = self.max_bits,
                          !.inner = Append(inner1, 0)]

\* self.truncate(0)
clear(self) == truncate(self, 0)

len(self) == self.units

\* Iter::next over the range 0..units: the values iter() yields, in order
iter(self) == [k \in 1..self.units |-> get(self, k - 1)]


(***************************************************************************)
(* BitsVec operations made of several pushes.  An operation that panics    *)
(* yields PanickedVec in place of a vector.                                *)
(***************************************************************************)
PanickedVec == [NoVec EXCEPT !.max_bits = -1]

\* phase 1 of extend_with_element: push until the last word is full or the
\* length is reached; yields the vector and what remains to be added
RECURSIVE extend_slow_push(_, _, _)
extend_slow_push(self, value, remain) ==
    IF self.leftover > 0
    THEN IF push_panics(self, value)
         THEN [vec |-> PanickedVec, remain |-> remain]
         ELSE IF remain - 1 = 0
              THEN [vec |-> push(self, value), remain |-> 0]
              ELSE extend_slow_push(push(self, value), value, remain - 1)
    ELSE [vec |-> self, remain |-> remain]

\* phase 2: a second vector filled until its last word is full
RECURSIVE extend_fill_temp(_, _, _)
extend_fill_temp(temp, value, remain) ==
    IF temp.leftover > 0 /\ remain > 0
    THEN IF push_panics(temp, value)
         THEN PanickedVec
         ELSE extend_fill_temp(push(temp, value), value, remain)
    ELSE temp

\* phase 3: whole copies of the second vector's words
RECURSIVE extend_from_temp(_, _, _)
extend_from_temp(self, temp, remain) ==
    IF remain >= temp.units
    THEN extend_from_temp([self EXCEPT !.inner = self.inner \o temp.inner,
                                       !.units = self.units + temp.units],
                          temp, remain - temp.units)
    ELSE [vec |-> self, remain |-> remain]

\* for _ in 0..remain { self.push(value) }, run as two halves when there
\* are several pushes
RECURSIVE push_repeated(_, _, _)
push_repeated(self, value, remain) ==
    IF remain = 0 \/ self = PanickedVec THEN self
    ELSE IF remain > 1
    THEN let([half \in {push_repeated(self, value, remain \div 2)} |->
         push_repeated(half, value, remain - remain \div 2)])
    ELSE IF push_panics(self, value) THEN PanickedVec
    ELSE push(self, value)

\* extend_with_element as it would be without the pushes that follow the
\* copies of whole words (the variant C11 has to tell from
\* extend_with_element)
extend_by_whole_words(self, length, value) ==
    IF ~(length > len(self)) THEN PanickedVec
    ELSE let([slow \in {extend_slow_push(self, value, length - len(self))} |->
         IF slow.vec = PanickedVec \/ slow.remain = 0 THEN slow.vec
         ELSE IF new_panics(self.bits) \/ push_panics(new(self.bits), value)
         THEN PanickedVec
         ELSE let([temp \in {extend_fill_temp(push(new(self.bits), value), value, slow.remain)} |->
              IF temp = PanickedVec THEN PanickedVec
              ELSE IF slow.remain = 0
              THEN [slow.vec EXCEPT !.units = @ + temp.units,
                                    !.inner = @ \o temp.inner]
              ELSE extend_from_temp(slow.vec, temp, slow.remain).vec])])

extend_with_element(self, length, value) ==
    IF ~(length > len(self)) THEN PanickedVec
    ELSE let([slow \in {extend_slow_push(self, value, length - len(self))} |->
         IF slow.vec = PanickedVec \/ slow.remain = 0 THEN slow.vec
         ELSE IF new_panics(self.bits) \/ push_panics(new(self.bits), value)
         THEN PanickedVec
         ELSE let([temp \in {extend_fill_temp(push(new(self.bits), value), value, slow.remain)} |->
              IF temp = PanickedVec THEN PanickedVec
              ELSE IF slow.remain = 0
              THEN [slow.vec EXCEPT !.units = @ + temp.units,
                                    !.inner = @ \o temp.inner]
              ELSE let([bulk \in {extend_from_temp(slow.vec, temp, slow.remain)} |->
                   push_repeated(bulk.vec, value, bulk.remain)])])])

with_elements(bits, length, value) ==
    IF new_panics(bits) THEN PanickedVec
    ELSE extend_with_element(new(bits), length, value)

\* for i in iterable { vec.push(i) }: the pushes of the elements k..bound,
\* run as two halves when there are several
RECURSIVE push_each(_, _, _, _)
push_each(self, iterable, k, bound) ==
    IF k > bound \/ self = PanickedVec THEN self
    ELSE IF k < bound
    THEN let([half \in {push_each(self, iterable, k, (k + bound) \div 2)} |->
         push_each(half, iterable, (k + bound) \div 2 + 1, bound)])
    ELSE IF push_panics(self, iterable[k]) THEN PanickedVec
    ELSE push(self, iterable[k])

from_iter(bits, iterable) ==
    IF new_panics(bits) THEN PanickedVec
    ELSE push_each(new(bits), iterable, 1, Len(iterable))

\* whether a get of iter() panics
iter_panics(self) == \E k \in 1..self.units : get_panics(self, k - 1)

\* PartialEq::eq
eq(self, other) ==
    IF self.units # other.units \/ self.bits # other.bits
    THEN FALSE
    ELSE self.inner = other.inner

(***************************************************************************)
(* Suffix array by induced sorting (sa.rs).                                *)
(***************************************************************************)
\* enum SuffixType
Small == 0
Large == 1
LeftMostSmall == 2

\* the marker of an empty slot: the largest value of an array element (the
\* source's u32::MAX in its 32-bit slots)
MARKER == Pow2(SlotBits) - 1

RECURSIVE next_power_of_two_from(_, _)
next_power_of_two_from(p, n) ==
    IF p >= n THEN p ELSE next_power_of_two_from(2 * p, n)

\* usize::next_power_of_two
next_power_of_two(n) == next_power_of_two_from(1, n)

RECURSIVE count_ones(_)
count_ones(n) == IF n = 0 THEN 0 ELSE (n % 2) + count_ones(n \div 2)

\* insert: the counter vector after the call
insert(counters, value) ==
    let([idx \in {value} |->
    let([extended \in {IF len(counters) <= idx
        THEN extend_with_element(counters, idx + 1, 0)
        ELSE counters} |->
    IF extended = PanickedVec THEN PanickedVec
    ELSE IF get_panics(extended, idx) THEN PanickedVec
    ELSE let([old \in {get(extended, idx)} |->
         IF set_panics(extended, idx, old + 1) THEN PanickedVec
         ELSE set(extended, idx, old + 1)])])])

NoSA ==
    [input |-> NoVec, type_map |-> NoVec, bucket_heads |-> NoVec,
     bucket_tails |-> NoVec, array |-> NoVec, marker |-> MARKER,
     temp_array |-> NoVec, panicked |-> FALSE]

PanickedSA == [NoSA EXCEPT !.panicked = TRUE]

\* build, step 1: the iterations i, i - 1, .., bound of the loop
\* "for i in (0..length - 1).rev()", run as two halves when there are
\* several; st is [type_map, bucket_sizes, last_byte, panicked]
RECURSIVE build_types(_, _, _, _)
build_types(input_iter, i, bound, st) ==
    IF st.panicked \/ i < bound THEN st
    ELSE IF bound < i
    THEN let([half \in {build_types(input_iter, i, (i + bound) \div 2 + 1, st)} |->
         build_types(input_iter, (i + bound) \div 2, bound, half)])
    ELSE let([cur_byte \in {input_iter[i + 1]} |->
         IF get_panics(st.type_map, i + 1) THEN [st EXCEPT !.panicked = TRUE]
         ELSE let([prev_type \in {get(st.type_map, i + 1)} |->
              let([sizes \in {insert(st.bucket_sizes, cur_byte)} |->
              IF sizes = PanickedVec THEN [st EXCEPT !.panicked = TRUE]
              ELSE IF cur_byte > st.last_byte
                      \/ (cur_byte = st.last_byte /\ prev_type = Large)
              THEN [type_map |-> set(IF prev_type = Small
                                     THEN set(st.type_map, i + 1, LeftMostSmall)
                                     ELSE st.type_map, i, Large),
                    bucket_sizes |-> sizes,
                    last_byte |-> cur_byte,
                    panicked |-> FALSE]
              ELSE [st EXCEPT !.bucket_sizes = sizes,
                              !.last_byte = cur_byte]])])])

\* bucket_sizes.iter().enumerate().filter_map(..): the bytes that occur
present_bytes(bucket_sizes) ==
    let([counts \in {iter(bucket_sizes)} |->
    [k \in 1..Cardinality({i \in 1..Len(counts) : counts[i] # 0}) |->
        CHOOSE i \in 0..(Len(counts) - 1) :
            /\ counts[i + 1] # 0
            /\ Cardinality({h \in 0..(i - 1) : counts[h + 1] # 0}) = k - 1]])

\* build, step 2: the loop "for i in 0..(max_byte + 1)" from index i up; st
\* is [bucket_heads, bucket_tails, idx, j, panicked]
RECURSIVE build_buckets(_, _, _, _, _)
build_buckets(bucket_sizes, bytes, max_byte, i, st) ==
    IF st.panicked \/ i > max_byte THEN st
    ELSE IF set_panics(st.bucket_heads, i, st.idx) THEN [st EXCEPT !.panicked = TRUE]
    ELSE let([hit \in {st.j < Len(bytes) /\ i = bytes[st.j + 1]} |->
         IF st.j >= Len(bytes) \/ (hit /\ get_panics(bucket_sizes, bytes[st.j + 1]))
         THEN [st EXCEPT !.panicked = TRUE]
         ELSE let([idx1 \in {IF hit THEN st.idx + get(bucket_sizes, bytes[st.j + 1])
                         ELSE st.idx} |->
              IF set_panics(st.bucket_tails, i, idx1 - 1)
              THEN [st EXCEPT !.panicked = TRUE]
              ELSE build_buckets(bucket_sizes, bytes, max_byte, i + 1,
                      [bucket_heads |-> set(st.bucket_heads, i, st.idx),
                       bucket_tails |-> set(st.bucket_tails, i, idx1 - 1),
                       idx |-> idx1,
                       j |-> IF hit THEN st.j + 1 ELSE st.j,
                       panicked |-> FALSE])])])

\* build, step 3: the iterations i..bound of the loop over
\* input_iter.enumerate(), run as two halves when there are several; st is
\* [vec, bucket_tails, panicked]
RECURSIVE build_approx_sa(_, _, _, _, _)
build_approx_sa(input_iter, type_map, i, bound, st) ==
    IF st.panicked \/ i > bound THEN st
    ELSE IF i < bound
    THEN let([half \in {build_approx_sa(input_iter, type_map, i, (i + bound) \div 2, st)} |->
         build_approx_sa(input_iter, type_map, (i + bound) \div 2 + 1, bound, half)])
    ELSE IF get_panics(type_map, i) THEN [st EXCEPT !.panicked = TRUE]
    ELSE IF get(type_map, i) # LeftMostSmall
    THEN st
    ELSE let([bucket_idx \in {input_iter[i + 1]} |->
         IF get_panics(st.bucket_tails, bucket_idx) THEN [st EXCEPT !.panicked = TRUE]
         ELSE let([bucket_value \in {get(st.bucket_tails, bucket_idx)} |->
              IF \/ set_panics(st.vec, bucket_value, i)
                 \/ set_panics(st.bucket_tails, bucket_idx, bucket_value - 1)
              THEN [st EXCEPT !.panicked = TRUE]
              ELSE [vec |-> set(st.vec, bucket_value, i),
                    bucket_tails |-> set(st.bucket_tails, bucket_idx, bucket_value - 1),
                    panicked |-> FALSE]])])

\* build, after step 2: the approximate suffix array and the struct
build_from_buckets(input_iter, length, max_bits, type_map, buckets) ==
    let([vec0 \in {with_elements(SlotBits, length + 1, MARKER)} |->
    IF buckets.panicked \/ vec0 = PanickedVec THEN PanickedSA
    ELSE let([approx \in {build_approx_sa(input_iter, type_map, 0, Len(input_iter) - 1,
                [vec |-> vec0, bucket_tails |-> buckets.bucket_tails,
                 panicked |-> FALSE])} |->
         IF approx.panicked THEN PanickedSA
         ELSE IF set_panics(approx.vec, 0, length) THEN PanickedSA
         ELSE let([input \in {from_iter(max_bits, input_iter)} |->
              IF input = PanickedVec THEN PanickedSA
              ELSE [input |-> input,
                    type_map |-> type_map,
                    bucket_heads |-> buckets.bucket_heads,
                    bucket_tails |-> buckets.bucket_tails,
                    array |-> set(approx.vec, 0, length),
                    marker |-> MARKER,
                    temp_array |-> new(1),
                    panicked |-> FALSE]])])])

\* build, after step 1
build_from_types(input_iter, length, input_bits, type_map, bucket_sizes) ==
    let([bytes \in {present_bytes(bucket_sizes)} |->
    let([max_byte \in {bytes[Len(bytes)]} |->
    let([max_bits \in {count_ones(next_power_of_two(max_byte) - 1)} |->
    let([tails0 \in {with_elements(input_bits, max_byte + 1, 0)} |->
    let([heads0 \in {with_elements(input_bits + 1, max_byte + 1, 0)} |->
    IF tails0 = PanickedVec \/ heads0 = PanickedVec THEN PanickedSA
    ELSE build_from_buckets(input_iter, length, max_bits, type_map,
            build_buckets(bucket_sizes, bytes, max_byte, 0,
               [bucket_heads |-> heads0, bucket_tails |-> tails0,
                idx |-> 1, j |-> 0, panicked |-> FALSE]))])])])])])

\* SuffixArray::build (steps 1-3); input_iter is the sequence the iterator
\* yields
build(input_iter, length) ==
    let([type_map0 \in {with_elements(2, length + 1, Small)} |->
    let([input_bits \in {count_ones(next_power_of_two(length) - 1)} |->
    IF type_map0 = PanickedVec \/ new_panics(input_bits) THEN PanickedSA
    ELSE IF set_panics(type_map0, length, LeftMostSmall) THEN PanickedSA
    ELSE let([type_map_end \in {set(type_map0, length, LeftMostSmall)} |->
         IF set_panics(type_map_end, length - 1, Large) THEN PanickedSA
         ELSE let([type_map1 \in {set(type_map_end, length - 1, Large)} |->
              let([last_byte \in {input_iter[length]} |->
              let([sizes0 \in {insert(new(input_bits), last_byte)} |->
              IF sizes0 = PanickedVec THEN PanickedSA
              ELSE let([types \in {build_types(input_iter, length - 2, 0,
                          [type_map |-> type_map1, bucket_sizes |-> sizes0,
                           last_byte |-> last_byte, panicked |-> FALSE])} |->
                   IF types.panicked THEN PanickedSA
                   ELSE build_from_types(input_iter, length, input_bits,
                                         types.type_map, types.bucket_sizes)])])])])])])])

\* the iterations i..bound of the loop of induced_sort_large, run as two
\* halves when there are several; the result is [self, bucket_heads]
RECURSIVE induced_sort_large_from(_, _, _, _)
induced_sort_large_from(self, bucket_heads, i, bound) ==
    IF self.panicked \/ i > bound THEN [self |-> self, bucket_heads |-> bucket_heads]
    ELSE IF i < bound
    THEN let([half \in {induced_sort_large_from(self, bucket_heads, i, (i + bound) \div 2)} |->
         induced_sort_large_from(half.self, half.bucket_heads, (i + bound) \div 2 + 1, bound)])
    ELSE IF get_panics(self.array, i) THEN [self |-> PanickedSA, bucket_heads |-> bucket_heads]
    ELSE let([byte \in {get(self.array, i)} |->
    IF byte = self.marker \/ byte = 0
    THEN [self |-> self, bucket_heads |-> bucket_heads]
    ELSE let([j \in {byte - 1} |->
    IF get_panics(self.type_map, j) THEN [self |-> PanickedSA, bucket_heads |-> bucket_heads]
    ELSE IF get(self.type_map, j) # Large
    THEN [self |-> self, bucket_heads |-> bucket_heads]
    ELSE IF get_panics(self.input, j) THEN [self |-> PanickedSA, bucket_heads |-> bucket_heads]
    ELSE let([bucket_idx \in {get(self.input, j)} |->
    IF get_panics(bucket_heads, bucket_idx) THEN [self |-> PanickedSA, bucket_heads |-> bucket_heads]
    ELSE let([bucket_value \in {get(bucket_heads, bucket_idx)} |->
    IF \/ set_panics(self.array, bucket_value, j)
       \/ set_panics(bucket_heads, bucket_idx, bucket_value + 1)
    THEN [self |-> PanickedSA, bucket_heads |-> bucket_heads]
    ELSE [self |-> [self EXCEPT !.array = set(self.array, bucket_value, j)],
          bucket_heads |-> set(bucket_heads, bucket_idx, bucket_value + 1)]])])])])

induced_sort_large(self) ==
    IF self.panicked THEN self
    ELSE induced_sort_large_from(self, self.bucket_heads, 0, len(self.array) - 1).self

\* the iterations i, i - 1, .., bound of the loop of induced_sort_small, run
\* as two halves when there are several; the result is [self, bucket_tails]
RECURSIVE induced_sort_small_from(_, _, _, _)
induced_sort_small_from(self, bucket_tails, i, bound) ==
    IF self.panicked \/ i < bound THEN [self |-> self, bucket_tails |-> bucket_tails]
    ELSE IF bound < i
    THEN let([half \in {induced_sort_small_from(self, bucket_tails, i, (i + bound) \div 2 + 1)} |->
         induced_sort_small_from(half.self, half.bucket_tails, (i + bound) \div 2, bound)])
    ELSE IF get_panics(self.array, i) THEN [self |-> PanickedSA, bucket_tails |-> bucket_tails]
    ELSE let([byte \in {get(self.array, i)} |->
    IF byte = self.marker \/ byte = 0
    THEN [self |-> self, bucket_tails |-> bucket_tails]
    ELSE let([j \in {byte - 1} |->
    IF get_panics(self.type_map, j) THEN [self |-> PanickedSA, bucket_tails |-> bucket_tails]
    ELSE IF get(self.type_map, j) = Large
    THEN [self |-> self, bucket_tails |-> bucket_tails]
    ELSE IF get_panics(self.input, j) THEN [self |-> PanickedSA, bucket_tails |-> bucket_tails]
    ELSE let([bucket_idx \in {get(self.input, j)} |->
    IF get_panics(bucket_tails, bucket_idx) THEN [self |-> PanickedSA, bucket_tails |-> bucket_tails]
    ELSE let([bucket_value \in {get(bucket_tails, bucket_idx)} |->
    IF \/ set_panics(self.array, bucket_value, j)
       \/ set_panics(bucket_tails, bucket_idx, bucket_value - 1)
    THEN [self |-> PanickedSA, bucket_tails |-> bucket_tails]
    ELSE [self |-> [self EXCEPT !.array = set(self.array, bucket_value, j)],
          bucket_tails |-> set(bucket_tails, bucket_idx, bucket_value - 1)]])])])])

\* induced_sort_small without its pass: the S-type suffixes are not placed
induced_sort_small_skipped(self) == self

induced_sort_small(self) ==
    IF self.panicked THEN self
    ELSE induced_sort_small_from(self, self.bucket_tails, len(self.array) - 1, 0).self

\* the loop of is_equal_lms from offset i up; the result is
\* [value |-> the returned bool, panicked |-> whether an access panicked]
RECURSIVE is_equal_lms_from(_, _, _, _)
is_equal_lms_from(self, j, k, i) ==
    IF i >= len(self.input) + 1 THEN [value |-> FALSE, panicked |-> FALSE]
    ELSE IF get_panics(self.type_map, i + j) \/ get_panics(self.type_map, i + k)
    THEN [value |-> FALSE, panicked |-> TRUE]
    ELSE let([first_lms \in {get(self.type_map, i + j) = LeftMostSmall} |->
         let([second_lms \in {get(self.type_map, i + k) = LeftMostSmall} |->
         IF first_lms /\ second_lms /\ i > 0
         THEN [value |-> TRUE, panicked |-> FALSE]
         ELSE IF first_lms # second_lms
         THEN [value |-> FALSE, panicked |-> FALSE]
         ELSE IF get_panics(self.input, i + j) \/ get_panics(self.input, i + k)
         THEN [value |-> FALSE, panicked |-> TRUE]
         ELSE IF get(self.input, i + j) # get(self.input, i + k)
         THEN [value |-> FALSE, panicked |-> FALSE]
         ELSE is_equal_lms_from(self, j, k, i + 1)])])

is_equal_lms(self, j, k) ==
    IF j = len(self.input) \/ k = len(self.input)
    THEN [value |-> FALSE, panicked |-> FALSE]
    ELSE is_equal_lms_from(self, j, k, 0)

\* prepare_for_stacking, step 5: the iterations i..bound of the loop over
\* approx_sa.iter().skip(1), run as two halves when there are several; st is
\* [label, last_idx, lms_vec, panicked]
RECURSIVE label_lms(_, _, _, _, _)
label_lms(self, approx_sa, i, bound, st) ==
    IF st.panicked \/ i > bound THEN st
    ELSE IF i < bound
    THEN let([half \in {label_lms(self, approx_sa, i, (i + bound) \div 2, st)} |->
         label_lms(self, approx_sa, (i + bound) \div 2 + 1, bound, half)])
    ELSE IF get_panics(approx_sa, i) THEN [st EXCEPT !.panicked = TRUE]
    ELSE let([count \in {get(approx_sa, i)} |->
         let([idx \in {IF count = self.marker THEN len(self.input) ELSE count} |->
         IF get_panics(self.type_map, idx) THEN [st EXCEPT !.panicked = TRUE]
         ELSE IF get(self.type_map, idx) # LeftMostSmall
         THEN st
         ELSE let([same \in {is_equal_lms(self, st.last_idx, idx)} |->
              let([label1 \in {IF ~same.value THEN st.label + 1 ELSE st.label} |->
              IF same.panicked \/ set_panics(st.lms_vec, idx, label1)
              THEN [st EXCEPT !.panicked = TRUE]
              ELSE [label |-> label1, last_idx |-> idx,
                    lms_vec |-> set(st.lms_vec, idx, label1),
                    panicked |-> FALSE]])])])])

\* the iterations i..bound of the loop over lms_bytes.iter().enumerate(), run
\* as two halves when there are several
RECURSIVE filter_lms(_, _, _, _, _)
filter_lms(lms_bytes, length, i, bound, summary_index) ==
    IF summary_index = PanickedVec \/ i > bound THEN summary_index
    ELSE IF i < bound
    THEN let([half \in {filter_lms(lms_bytes, length, i, (i + bound) \div 2, summary_index)} |->
         filter_lms(lms_bytes, length, (i + bound) \div 2 + 1, bound, half)])
    ELSE IF get_panics(lms_bytes, i) THEN PanickedVec
    ELSE IF get(lms_bytes, i) # length
    THEN IF push_panics(summary_index, i) THEN PanickedVec
         ELSE push(summary_index, i)
    ELSE summary_index

\* whether a get of summary_index.iter().map(|i| lms_bytes.get(i)) panics
map_lms_panics(summary_index, lms_bytes) ==
    \E k \in 1..len(summary_index) :
        \/ get_panics(summary_index, k - 1)
        \/ get_panics(lms_bytes, get(summary_index, k - 1))

\* summary_index.iter().map(|i| lms_bytes.get(i)), as the sequence it yields
map_lms(summary_index, lms_bytes) ==
    [k \in 1..len(summary_index) |-> get(lms_bytes, get(summary_index, k - 1))]

\* the iterations i..bound of the loop over summary_index.iter().enumerate(),
\* run as two halves when there are several
RECURSIVE fill_sum_sa(_, _, _, _, _)
fill_sum_sa(summary_index, lms_bytes, i, bound, sum_sa) ==
    IF sum_sa = PanickedVec \/ i > bound THEN sum_sa
    ELSE IF i < bound
    THEN let([half \in {fill_sum_sa(summary_index, lms_bytes, i, (i + bound) \div 2, sum_sa)} |->
         fill_sum_sa(summary_index, lms_bytes, (i + bound) \div 2 + 1, bound, half)])
    ELSE IF get_panics(summary_index, i) THEN PanickedVec
    ELSE let([val \in {get(summary_index, i)} |->
         IF get_panics(lms_bytes, val) THEN PanickedVec
         ELSE let([idx \in {get(lms_bytes, val)} |->
              IF set_panics(sum_sa, idx + 1, i) THEN PanickedVec
              ELSE set(sum_sa, idx + 1, i)])])

\* prepare_for_stacking, the end of step 5: the summary suffix array when the
\* labels are unique, the summary string when they are not
summarize(self, label, lms_bytes, summary_index) ==
    let([is_recursive \in {label + 1 < len(summary_index)} |->
    let([mapped_array \in {IF is_recursive
        THEN IF map_lms_panics(summary_index, lms_bytes)
             THEN PanickedVec
             ELSE from_iter(SlotBits, map_lms(summary_index, lms_bytes))
        ELSE let([sum_sa \in {with_elements(SlotBits, len(summary_index) + 1, 0)} |->
             IF sum_sa = PanickedVec THEN PanickedVec
             ELSE IF set_panics(sum_sa, 0, len(summary_index)) THEN PanickedVec
             ELSE fill_sum_sa(summary_index, lms_bytes, 0, len(summary_index) - 1,
                              set(sum_sa, 0, len(summary_index)))])} |->
    IF mapped_array = PanickedVec
    THEN [sa |-> PanickedSA, is_recursive |-> FALSE]
    ELSE [sa |-> [self EXCEPT !.array = mapped_array,
                              !.temp_array = summary_index],
          is_recursive |-> is_recursive]])])

\* prepare_for_stacking, after step 4; the result is the SuffixArray and
\* the returned is_recursive
label_and_summarize(self) ==
    let([length \in {len(self.input)} |->
    let([input_bits \in {count_ones(next_power_of_two(len(self.input)) - 1)} |->
    let([approx_sa \in {self.array} |->
    IF get_panics(approx_sa, 0) THEN [sa |-> PanickedSA, is_recursive |-> FALSE]
    ELSE let([last_idx \in {get(approx_sa, 0)} |->
         let([lms_vec0 \in {with_elements(input_bits, length + 1, length)} |->
         IF lms_vec0 = PanickedVec THEN [sa |-> PanickedSA, is_recursive |-> FALSE]
         ELSE IF set_panics(lms_vec0, last_idx, 0)
         THEN [sa |-> PanickedSA, is_recursive |-> FALSE]
         ELSE let([labelled \in {label_lms(self, approx_sa, 1, len(approx_sa) - 1,
                     [label |-> 0, last_idx |-> last_idx,
                      lms_vec |-> set(lms_vec0, last_idx, 0),
                      panicked |-> FALSE])} |->
              IF labelled.panicked \/ new_panics(SlotBits)
              THEN [sa |-> PanickedSA, is_recursive |-> FALSE]
              ELSE let([summary_index \in {filter_lms(labelled.lms_vec, length, 0,
                                           len(labelled.lms_vec) - 1, new(SlotBits))} |->
                   IF summary_index = PanickedVec
                   THEN [sa |-> PanickedSA, is_recursive |-> FALSE]
                   ELSE summarize(self, labelled.label, labelled.lms_vec,
                                  summary_index)])])])])])])])

\* prepare_for_stacking (steps 4-5)
prepare_for_stacking(self) ==
    let([sorted \in {induced_sort_small(induced_sort_large(self))} |->
    IF sorted.panicked
    THEN [sa |-> PanickedSA, is_recursive |-> FALSE]
    ELSE label_and_summarize(sorted)])

\* the iterations i, i - 1, .., bound of the loop of fix_stacked
\* "for i in (2..summary_sa.len()).rev()", run as two halves when there are
\* several; st is [suffix_idx, bucket_tails, panicked]
RECURSIVE place_lms(_, _, _, _)
place_lms(self, i, bound, st) ==
    IF st.panicked \/ i < bound THEN st
    ELSE IF bound < i
    THEN let([half \in {place_lms(self, i, (i + bound) \div 2 + 1, st)} |->
         place_lms(self, (i + bound) \div 2, bound, half)])
    ELSE
    let([summary_sa \in {self.array} |->
    let([summary_index \in {self.temp_array} |->
    IF get_panics(summary_sa, i) THEN [st EXCEPT !.panicked = TRUE]
    ELSE IF get_panics(summary_index, get(summary_sa, i)) THEN [st EXCEPT !.panicked = TRUE]
    ELSE let([idx \in {get(summary_index, get(summary_sa, i))} |->
    IF get_panics(self.input, idx) THEN [st EXCEPT !.panicked = TRUE]
    ELSE let([bucket_idx \in {get(self.input, idx)} |->
    IF get_panics(st.bucket_tails, bucket_idx) THEN [st EXCEPT !.panicked = TRUE]
    ELSE let([bucket_value \in {get(st.bucket_tails, bucket_idx)} |->
    IF \/ set_panics(st.suffix_idx, bucket_value, idx)
       \/ set_panics(st.bucket_tails, bucket_idx, bucket_value - 1)
    THEN [st EXCEPT !.panicked = TRUE]
    ELSE [suffix_idx |-> set(st.suffix_idx, bucket_value, idx),
          bucket_tails |-> set(st.bucket_tails, bucket_idx, bucket_value - 1),
          panicked |-> FALSE]])])])])])

\* fix_stacked (step 6)
fix_stacked(self) ==
    let([suffix_idx0 \in {with_elements(SlotBits, len(self.input) + 1, MARKER)} |->
    IF suffix_idx0 = PanickedVec THEN PanickedSA
    ELSE let([placed \in {place_lms(self, len(self.array) - 1, 2,
                [suffix_idx |-> suffix_idx0,
                 bucket_tails |-> self.bucket_tails,
                 panicked |-> FALSE])} |->
         IF placed.panicked THEN PanickedSA
         ELSE IF set_panics(placed.suffix_idx, 0, len(self.input)) THEN PanickedSA
         ELSE induced_sort_small(induced_sort_large(
                 [self EXCEPT !.array = set(placed.suffix_idx, 0, len(self.input))]))])])

\* the first loop of suffix_array_stacked (while is_recursive), from the
\* outcome of prepare_for_stacking; yields the last level and the stack
RECURSIVE stack_levels(_, _)
stack_levels(prepared, stack) ==
    IF prepared.sa.panicked \/ ~prepared.is_recursive
    THEN [sa |-> prepared.sa, stack |-> stack]
    ELSE IF iter_panics(prepared.sa.array)
    THEN [sa |-> PanickedSA, stack |-> stack]
    ELSE stack_levels(prepare_for_stacking(build(iter(prepared.sa.array),
                                                 len(prepared.sa.array))),
                      Append(stack, prepared.sa))

\* the second loop of suffix_array_stacked (while let Some(..) = pop_back())
RECURSIVE unwind_stack(_, _)
unwind_stack(sa, stack) ==
    IF sa.panicked \/ stack = <<>> THEN sa
    ELSE unwind_stack(fix_stacked([stack[Len(stack)] EXCEPT !.array = sa.array]),
                      SubSeq(stack, 1, Len(stack) - 1))

\* suffix_array_stacked with the in-memory stack; the result is
\* [value |-> the returned Vec, panicked |-> whether the call panicked]
suffix_array_stacked(input) ==
    let([leaf \in {stack_levels(prepare_for_stacking(build(input, Len(input))), <<>>)} |->
    IF leaf.sa.panicked THEN [value |-> <<>>, panicked |-> TRUE]
    ELSE let([sa \in {unwind_stack(fix_stacked(leaf.sa), leaf.stack)} |->
         IF sa.panicked \/ iter_panics(sa.array)
         THEN [value |-> <<>>, panicked |-> TRUE]
         ELSE [value |-> iter(sa.array), panicked |-> FALSE]])])

\* suffix_array: inputs above INPUT_LIMIT use the file-backed stack, which
\* holds the same frames
suffix_array(input) == suffix_array_stacked(input)

(***************************************************************************)
(* bwt, ibwt and FMIndex (bwt.rs).  Vec<u8> and Vec<u32> are sequences;    *)
(* v[i + 1] is the code's v[i].                                            *)
(***************************************************************************)
\* bwt; the result is [value, panicked]
bwt(input) ==
    let([sa \in {suffix_array(input)} |->
    IF sa.panicked THEN [value |-> <<>>, panicked |-> TRUE]
    ELSE [value |-> [k \in 1..Len(sa.value) |->
                        IF sa.value[k] = 0 THEN 0 ELSE input[(sa.value[k] - 1) + 1]],
          panicked |-> FALSE]])

\* vec![value; n], as a sequence
repeat(value, n) == SubSeq([k \in 1..n |-> value], 1, n)

\* insert as bwt.rs calls it, on a Vec of counters: the vector after the
\* call and the returned count
insert_vec(counters, value) ==
    let([idx \in {value} |->
    let([extended \in {IF Len(counters) <= idx
        THEN counters \o repeat(0, idx + 1 - Len(counters))
        ELSE counters} |->
    let([old \in {extended[idx + 1]} |->
    [vec |-> [extended EXCEPT ![idx + 1] = old + 1], value |-> old + 1]])])])

\* the loop of generate_occurrence_index from index i up
RECURSIVE occurrence_index_from(_, _, _)
occurrence_index_from(map, i, idx) ==
    IF i >= Len(map) THEN map
    ELSE occurrence_index_from([map EXCEPT ![i + 1] = idx], i + 1, idx + map[i + 1])

generate_occurrence_index(map) == occurrence_index_from(map, 0, 0)

\* "for i in input { insert(&mut map, *i) }" from index i up; yields the map
\* and the counts returned
RECURSIVE count_bytes(_, _, _, _)
count_bytes(input, i, map, count) ==
    IF i >= Len(input) THEN [map |-> map, count |-> count]
    ELSE let([ins \in {insert_vec(map, input[i + 1])} |->
         count_bytes(input, i + 1, ins.vec, [count EXCEPT ![i + 1] = ins.value])])

\* the loop that generates the LF vector, from index i up
RECURSIVE lf_from(_, _, _, _)
lf_from(input, i, map, lf) ==
    IF i >= Len(input) THEN lf
    ELSE let([byte \in {input[i + 1]} |->
         let([val \in {map[byte + 1]} |->
         lf_from(input, i + 1, [map EXCEPT ![byte + 1] = val + 1],
                 [lf EXCEPT ![i + 1] = val])])])

\* the loop of ibwt "for i in (0..(input.len() - 1)).rev()" from index i down
RECURSIVE ibwt_walk(_, _, _, _, _)
ibwt_walk(input, lf, i, idx, output) ==
    IF i < 0 THEN output
    ELSE ibwt_walk(input, lf, i - 1, lf[idx + 1],
                   [output EXCEPT ![i + 1] = input[idx + 1]])

\* ibwt of a non-empty input
ibwt(input) ==
    let([zeros \in {repeat(0, Len(input))} |->
    let([map \in {generate_occurrence_index(count_bytes(input, 0, <<>>, zeros).map)} |->
    let([lf \in {lf_from(input, 0, map, zeros)} |->
    let([output \in {ibwt_walk(input, lf, Len(input) - 2, 0, zeros)} |->
    SubSeq(output, 1, Len(output) - 1)])])])])

NoIndex == [data |-> <<>>, cache |-> <<>>, occ_map |-> <<>>, lf_vec |-> <<>>]

\* the last loop of new_from_bwt, "for _ in 0..(bwt_data.len() - 1)", with
\* `left` rounds to go
RECURSIVE suffix_lengths(_, _, _, _)
suffix_lengths(lf_vec, i, counter, left) ==
    IF left = 0 THEN lf_vec
    ELSE suffix_lengths([lf_vec EXCEPT ![i + 1] = counter],
                        lf_vec[i + 1], counter - 1, left - 1)

\* FMIndex::new_from_bwt of a non-empty bwt_data
new_from_bwt(bwt_data) ==
    let([counted \in {count_bytes(bwt_data, 0, <<>>, repeat(0, Len(bwt_data)))} |->
    let([map \in {generate_occurrence_index(counted.map)} |->
    let([lf_vec0 \in {lf_from(bwt_data, 0, map, counted.count)} |->
    let([lf_vec \in {suffix_lengths([lf_vec0 EXCEPT ![1] = 0], lf_vec0[1],
                       Len(bwt_data) - 1, Len(bwt_data) - 1)} |->
    [data |-> bwt_data, cache |-> counted.count, occ_map |-> map, lf_vec |-> lf_vec]])])])])

\* FMIndex::new; the result is [index, panicked]
new_index(data) ==
    let([bwt_data \in {bwt(data)} |->
    IF bwt_data.panicked THEN [index |-> NoIndex, panicked |-> TRUE]
    ELSE [index |-> new_from_bwt(bwt_data.value), panicked |-> FALSE]])

\* (0..idx).rev().find(|&i| self.data[i] == ch): <<>> is None, <<i>> Some(i)
RECURSIVE rfind(_, _, _)
rfind(self, ch, idx) ==
    IF idx = 0 THEN <<>>
    ELSE IF self.data[(idx - 1) + 1] = ch THEN <<idx - 1>>
    ELSE rfind(self, ch, idx - 1)

\* nearest reads data[idx - 1] first: out of range when idx > data.len()
nearest_panics(self, idx, ch) ==
    /\ ch < Len(self.occ_map)
    /\ self.occ_map[ch + 1] > 0
    /\ idx > Len(self.data)

\* nearest as it would be without the test that the byte occurs in the text
\* (the variant C5 has to tell from nearest)
nearest_of_any_byte(self, idx, ch) ==
    IF ch < Len(self.occ_map)
    THEN let([found \in {rfind(self, ch, idx)} |->
         self.occ_map[ch + 1] + (IF found = <<>> THEN 0 ELSE self.cache[found[1] + 1])])
    ELSE 0

nearest(self, idx, ch) ==
    IF ch < Len(self.occ_map) /\ self.occ_map[ch + 1] > 0
    THEN let([found \in {rfind(self, ch, idx)} |->
         self.occ_map[ch + 1] + (IF found = <<>> THEN 0 ELSE self.cache[found[1] + 1])])
    ELSE 0

\* the loop of get_range over the bytes of the query in reverse, k bytes to
\* go; yields the range at the point of return, whether the loop returned
\* None, and whether an access panicked
RECURSIVE narrow_range(_, _, _, _, _)
narrow_range(self, query, k, top, bottom) ==
    IF k = 0 THEN [top |-> top, bottom |-> bottom, none |-> FALSE, panicked |-> FALSE]
    ELSE let([ch \in {query[k]} |->
         IF nearest_panics(self, top, ch) \/ nearest_panics(self, bottom, ch)
         THEN [top |-> top, bottom |-> bottom, none |-> FALSE, panicked |-> TRUE]
         ELSE let([top1 \in {nearest(self, top, ch)} |->
              let([bottom1 \in {nearest(self, bottom, ch)} |->
              IF top1 >= bottom1
              THEN [top |-> top1, bottom |-> bottom1, none |-> TRUE, panicked |-> FALSE]
              ELSE narrow_range(self, query, k - 1, top1, bottom1)])])])

\* get_range; none stands for the returned None
get_range(self, query) ==
    let([range \in {narrow_range(self, query, Len(query), 0, Len(self.data))} |->
    IF range.panicked \/ range.none THEN range
    ELSE IF range.top >= range.bottom THEN [range EXCEPT !.none = TRUE]
    ELSE range])

\* count; the result is [value, panicked]
count(self, query) ==
    let([range \in {get_range(self, query)} |->
    IF range.panicked THEN [value |-> 0, panicked |-> TRUE]
    ELSE IF range.none THEN [value |-> 0, panicked |-> FALSE]
    ELSE [value |-> range.bottom - range.top, panicked |-> FALSE]])

\* whether the closure of search panics at idx: data[idx], nearest's reads
\* or lf_vec[i] out of range
search_at_panics(self, idx) ==
    \/ idx >= Len(self.data)
    \/ nearest_panics(self, idx, self.data[idx + 1])
    \/ nearest(self, idx, self.data[idx + 1]) >= Len(self.lf_vec)

\* the closure of search as it would be with lf_vec read at the row itself
\* (the variant C15 has to tell from search_at)
search_at_row(self, idx) == self.lf_vec[idx + 1]

search_at(self, idx) == self.lf_vec[nearest(self, idx, self.data[idx + 1]) + 1]

\* search; the result is [value, panicked]
search(self, query) ==
    let([range \in {get_range(self, query)} |->
    IF range.panicked THEN [value |-> <<>>, panicked |-> TRUE]
    ELSE IF range.none THEN [value |-> <<>>, panicked |-> FALSE]
    ELSE IF \E idx \in range.top..(range.bottom - 1) : search_at_panics(self, idx)
    THEN [value |-> <<>>, panicked |-> TRUE]
    ELSE [value |-> [k \in 1..(range.bottom - range.top) |->
                        search_at(self, range.top + k - 1)],
          panicked |-> FALSE]])

\* io::write of an index: the derived Encodable writes the four fields in
\* the order of the struct, each vector as its length followed by its
\* elements
encode_index(self) ==
    <<Len(self.data)>> \o self.data \o <<Len(self.cache)>> \o self.cache
        \o <<Len(self.occ_map)>> \o self.occ_map
        \o <<Len(self.lf_vec)>> \o self.lf_vec

\* the derived Decodable of a vector read at pos: the length, then as many
\* elements; failed when the stream ends before them
decode_vec(stream, pos) ==
    IF pos > Len(stream) \/ pos + stream[pos] > Len(stream)
    THEN [value |-> <<>>, next |-> pos, failed |-> TRUE]
    ELSE [value |-> SubSeq(stream, pos + 1, pos + stream[pos]),
          next |-> pos + stream[pos] + 1, failed |-> FALSE]

\* io::read::<FMIndex>: decode_from(..).unwrap() of the derived Decodable,
\* the four fields in the order of the struct; the result is
\* [index, panicked]
decode_index(stream) ==
    let([data \in {decode_vec(stream, 1)} |->
    let([cache \in {decode_vec(stream, data.next)} |->
    let([occ_map \in {decode_vec(stream, cache.next)} |->
    let([lf_vec \in {decode_vec(stream, occ_map.next)} |->
    IF data.failed \/ cache.failed \/ occ_map.failed \/ lf_vec.failed
    THEN [index |-> NoIndex, panicked |-> TRUE]
    ELSE [index |-> [data |-> data.value, cache |-> cache.value,
                     occ_map |-> occ_map.value, lf_vec |-> lf_vec.value],
          panicked |-> FALSE]])])])])

(***************************************************************************)
(* The stacks (sa.rs).  Vec<SuffixArray> is a sequence.  A StackDump is    *)
(* [name, count]; its path is the working directory, whose scratch files   *)
(* are the records [name, count, data] of the set files: the file          *)
(* <name>_<count> and the words written to it.  An Option is <<>> (None)   *)
(* or <<value>> (Some(value)).                                             *)
(***************************************************************************)
NoDump == [name |-> "", count |-> 0]

NoPop == [op |-> "none", vec |-> <<>>, dump |-> <<>>, panicked |-> FALSE]

\* Stack::push_back and pop_back of Vec<T>: push and pop
vec_push_back(self, value) == Append(self, value)

vec_pop_back(self) ==
    IF self = <<>> THEN [self |-> self, value |-> <<>>]
    ELSE [self |-> SubSeq(self, 1, Len(self) - 1), value |-> <<self[Len(self)]>>]

\* StackDump::new(path): the name is ten random characters
StackDump_new(name) == [name |-> name, count |-> 0]

\* the derived Encodable of a BitsVec: the fields in the order of the struct,
\* inner as its length followed by its words (PhantomData writes nothing)
encode_bitsvec(self) ==
    <<Len(self.inner)>> \o self.inner
        \o <<self.units, self.bits, self.max_bits, self.leftover>>

\* the derived Decodable of a BitsVec read at pos; failed when the stream
\* ends before the last field
decode_bitsvec(stream, pos) ==
    let([inner \in {decode_vec(stream, pos)} |->
    IF inner.failed \/ inner.next + 3 > Len(stream)
    THEN [value |-> NoVec, next |-> pos, failed |-> TRUE]
    ELSE [value |-> [inner |-> inner.value,
                     units |-> stream[inner.next],
                     bits |-> stream[inner.next + 1],
                     max_bits |-> stream[inner.next + 2],
                     leftover |-> stream[inner.next + 3]],
          next |-> inner.next + 4, failed |-> FALSE]])

\* encode_into(&value, ..) of a SuffixArray: the derived Encodable writes the
\* seven fields in the order of the struct
encode_sa(self) ==
    encode_bitsvec(self.input) \o encode_bitsvec(self.type_map)
        \o encode_bitsvec(self.bucket_heads) \o encode_bitsvec(self.bucket_tails)
        \o encode_bitsvec(self.array) \o <<self.marker>>
        \o encode_bitsvec(self.temp_array)

\* decode_from(..).unwrap() of a SuffixArray; the result is [sa, panicked]
decode_sa(stream) ==
    let([input \in {decode_bitsvec(stream, 1)} |->
    let([type_map \in {decode_bitsvec(stream, input.next)} |->
    let([bucket_heads \in {decode_bitsvec(stream, type_map.next)} |->
    let([bucket_tails \in {decode_bitsvec(stream, bucket_heads.next)} |->
    let([array \in {decode_bitsvec(stream, bucket_tails.next)} |->
    let([temp_array \in {decode_bitsvec(stream, array.next + 1)} |->
    IF \/ input.failed \/ type_map.failed \/ bucket_heads.failed
       \/ bucket_tails.failed \/ array.failed \/ array.next > Len(stream)
       \/ temp_array.failed
    THEN [sa |-> PanickedSA, panicked |-> TRUE]
    ELSE [sa |-> [input |-> input.value, type_map |-> type_map.value,
                  bucket_heads |-> bucket_heads.value,
                  bucket_tails |-> bucket_tails.value,
                  array |-> array.value, marker |-> stream[array.next],
                  temp_array |-> temp_array.value, panicked |-> FALSE],
          panicked |-> FALSE]])])])])])])

\* the scratch files of the directory at the path <name>_<count>
files_at(directory, name, number) ==
    {file \in directory : file.name = name /\ file.count = number}

\* StackDump::push_back: File::create truncates a file that is there; the
\* result is the StackDump and the directory after the call
push_back(self, directory, value) ==
    [self |-> [self EXCEPT !.count = self.count + 1],
     files |-> (directory \ files_at(directory, self.name, self.count))
                 \cup {[name |-> self.name, count |-> self.count,
                        data |-> encode_sa(value)]},
     panicked |-> FALSE]

\* pop_back without fs::remove_file
pop_back_keeps_file(self, directory) ==
    IF self.count = 0
    THEN [self |-> self, files |-> directory, value |-> <<>>, panicked |-> FALSE]
    ELSE let([popped_self \in {[self EXCEPT !.count = self.count - 1]} |->
         let([fd \in {files_at(directory, popped_self.name, popped_self.count)} |->
         IF fd = {}
         THEN [self |-> popped_self, files |-> directory, value |-> <<>>,
               panicked |-> TRUE]
         ELSE let([data \in {decode_sa((CHOOSE file \in fd : TRUE).data)} |->
              [self |-> popped_self, files |-> directory,
               value |-> IF data.panicked THEN <<>> ELSE <<data.sa>>,
               panicked |-> data.panicked]])])])

\* StackDump::pop_back: value is the returned Option; File::open and
\* decode_from are unwrapped, and panic on a missing file and on a stream
\* that does not decode
pop_back(self, directory) ==
    IF self.count = 0
    THEN [self |-> self, files |-> directory, value |-> <<>>, panicked |-> FALSE]
    ELSE let([popped_self \in {[self EXCEPT !.count = self.count - 1]} |->
         let([fd \in {files_at(directory, popped_self.name, popped_self.count)} |->
         IF fd = {}
         THEN [self |-> popped_self, files |-> directory, value |-> <<>>,
               panicked |-> TRUE]
         ELSE let([data \in {decode_sa((CHOOSE file \in fd : TRUE).data)} |->
              IF data.panicked
              THEN [self |-> popped_self, files |-> directory, value |-> <<>>,
                    panicked |-> TRUE]
              ELSE [self |-> popped_self, files |-> directory \ fd,
                    value |-> <<data.sa>>, panicked |-> FALSE]])])])

NoRange == [top |-> 0, bottom |-> 0, none |-> FALSE, panicked |-> FALSE]

\* answer: the call made (op), its argument (the query of count and search,
\* the position idx and the byte <<ch>> of nearest), what it returned (count
\* of count and nearest, positions of search, bytes of ibwt), the range
\* get_range ended with, and whether the call panicked
NoAnswer ==
    [op |-> "none", query |-> <<>>, idx |-> 0, count |-> 0, positions |-> <<>>,
     bytes |-> <<>>, range |-> NoRange, panicked |-> FALSE]

(***************************************************************************)
(* The BitsVec specification: a caller that owns one vector and makes any  *)
(* sequence of calls on it.  A call that panics leaves the vector as it    *)
(* was when the panic was raised; every assertion of the code precedes the *)
(* call's first write.  last describes the call that has just returned     *)
(* (its arguments, whether it panicked, what it returned and the vector    *)
(* before it); the caller takes note of it (Return) before the next call.  *)
(* shadow is the sequence of values the calls so far are meant to have     *)
(* left in the vector.                                                     *)
(***************************************************************************)
NoCall ==
    [op |-> "none", i |-> 0, v |-> 0, panicked |-> FALSE, out |-> <<>>, pre |-> NoVec]

Call(op, i, v, panicked, out) ==
    [op |-> op, i |-> i, v |-> v, panicked |-> panicked, out |-> out, pre |-> vec]

\* the values offered to push and set: the bit patterns 0..0, 0..01, 10..0
\* and 1..1 of the width, and the first value that is too large
Values(bits) == {0, 1, Pow2(bits) \div 2, Pow2(bits) - 1, Pow2(bits)}

InitBitsVec ==
    /\ overflow_checks \in BOOLEAN
    /\ usize_bits = UsizeBits
    /\ vec = NoVec
    /\ shadow = <<>>
    /\ last = NoCall
    /\ cur_input = <<>> /\ pc = "idle" /\ cur_sa = NoSA /\ cur_is_recursive = FALSE
    /\ cur_stack = <<>> /\ result = <<>>
    /\ text = <<>> /\ phase = "idle" /\ bw = <<>> /\ fm = NoIndex /\ answer = NoAnswer
    /\ dump = NoDump /\ files = {} /\ popped = NoPop

NewCall(bits) ==
    /\ last = NoCall
    /\ vec = NoVec
    /\ IF new_panics(bits)
       THEN /\ last' = Call("new", 0, bits, TRUE, <<>>)
            /\ UNCHANGED <<vec, shadow>>
       ELSE /\ vec' = new(bits)
            /\ shadow' = <<>>
            /\ last' = Call("new", 0, bits, FALSE, <<>>)
    /\ UNCHANGED <<overflow_checks, usize_bits, sa_vars, index_vars, stack_vars>>

PushCall(value) ==
    /\ last = NoCall
    /\ vec # NoVec
    /\ vec.units * vec.bits <= MaxTotalBits
    /\ vec.units <= MaxTotalBits
    /\ IF push_panics(vec, value)
       THEN /\ last' = Call("push", 0, value, TRUE, <<>>)
            /\ UNCHANGED <<vec, shadow>>
       ELSE /\ vec' = push(vec, value)
            /\ shadow' = Append(shadow, value)
            /\ last' = Call("push", 0, value, FALSE, <<>>)
    /\ UNCHANGED <<overflow_checks, usize_bits, sa_vars, index_vars, stack_vars>>

GetCall(i) ==
    /\ last = NoCall
    /\ vec # NoVec
    /\ IF get_panics(vec, i)
       THEN last' = Call("get", i, 0, TRUE, <<>>)
       ELSE last' = Call("get", i, 0, FALSE, <<get(vec, i)>>)
    /\ UNCHANGED <<overflow_checks, usize_bits, vec, shadow, sa_vars, index_vars, stack_vars>>

\* out is <<r>> for the returned Option r
CheckedGetCall(i) ==
    /\ last = NoCall
    /\ vec # NoVec
    /\ IF i < vec.units /\ get_panics(vec, i)
       THEN last' = Call("checked_get", i, 0, TRUE, <<>>)
       ELSE last' = Call("checked_get", i, 0, FALSE, <<checked_get(vec, i)>>)
    /\ UNCHANGED <<overflow_checks, usize_bits, vec, shadow, sa_vars, index_vars, stack_vars>>

\* set is called on the vectors that pushes alone can build (the longer ones
\* that extensions build are read and truncated)
SetCall(i, value) ==
    /\ last = NoCall
    /\ vec # NoVec
    /\ vec.units * vec.bits <= MaxTotalBits + vec.bits
    /\ IF set_panics(vec, i, value)
       THEN /\ last' = Call("set", i, value, TRUE, <<>>)
            /\ UNCHANGED <<vec, shadow>>
       ELSE /\ vec' = set(vec, i, value)
            /\ shadow' = [shadow EXCEPT ![i + 1] = value]
            /\ last' = Call("set", i, value, FALSE, <<>>)
    /\ UNCHANGED <<overflow_checks, usize_bits, sa_vars, index_vars, stack_vars>>

TruncateCall(length) ==
    /\ last = NoCall
    /\ vec # NoVec
    /\ IF truncate_rejects(vec, length)
       THEN /\ last' = Call("truncate", length, 0, TRUE, <<>>)
            /\ UNCHANGED <<vec, shadow>>
       ELSE /\ vec' = truncate(vec, length)
            /\ shadow' = SubSeq(shadow, 1, length)
            /\ last' = Call("truncate", length, 0, FALSE, <<>>)
    /\ UNCHANGED <<overflow_checks, usize_bits, sa_vars, index_vars, stack_vars>>

\* the arguments the specification tries: every valid one and the first
\* invalid one
Widths == 0..usize_bits

Indices == 0..vec.units

New == \E bits \in Widths : NewCall(bits)

Push == \E value \in Values(vec.bits) : PushCall(value)

Get == \E i \in Indices : GetCall(i)

CheckedGet == \E i \in Indices : CheckedGetCall(i)

Set == \E i \in Indices, value \in Values(vec.bits) : SetCall(i, value)

Truncate == \E length \in Indices : TruncateCall(length)

Clear ==
    /\ last = NoCall
    /\ vec # NoVec
    /\ IF truncate_rejects(vec, 0)
       THEN /\ last' = Call("clear", 0, 0, TRUE, <<>>)
            /\ UNCHANGED <<vec, shadow>>
       ELSE /\ vec' = clear(vec)
            /\ shadow' = <<>>
            /\ last' = Call("clear", 0, 0, FALSE, <<>>)
    /\ UNCHANGED <<overflow_checks, usize_bits, sa_vars, index_vars, stack_vars>>

\* an extension to a final length of 0..MaxExtendBits elements, the lengths
\* below the current one included
Extend ==
    /\ last = NoCall
    /\ vec # NoVec
    /\ vec.units * vec.bits <= MaxTotalBits
    /\ \E length \in 0..MaxExtendBits, value \in Values(vec.bits) :
          /\ length * vec.bits <= MaxExtendBits
          /\ \E extended \in {extend_with_element(vec, length, value)} :
                IF extended = PanickedVec
                THEN /\ last' = Call("extend", length, value, TRUE, <<>>)
                     /\ UNCHANGED <<vec, shadow>>
                ELSE /\ vec' = extended
                     /\ shadow' = shadow \o repeat(value, length - Len(shadow))
                     /\ last' = Call("extend", length, value, FALSE, <<>>)
    /\ UNCHANGED <<overflow_checks, usize_bits, sa_vars, index_vars, stack_vars>>

\* out is <<bits>>, the width asked for
WithElements ==
    /\ last = NoCall
    /\ vec = NoVec
    /\ \E bits \in Widths, length \in 0..MaxExtendBits :
          /\ length * bits <= MaxExtendBits
          /\ \E value \in Values(bits) :
              \E built \in {with_elements(bits, length, value)} :
                IF built = PanickedVec
                THEN /\ last' = Call("with_elements", length, value, TRUE, <<bits>>)
                     /\ UNCHANGED <<vec, shadow>>
                ELSE /\ vec' = built
                     /\ shadow' = repeat(value, length)
                     /\ last' = Call("with_elements", length, value, FALSE, <<bits>>)
    /\ UNCHANGED <<overflow_checks, usize_bits, sa_vars, index_vars, stack_vars>>

\* vec == other, other being the vector of the same width filled with the
\* elements of vec by pushes (BitsVec::from_iter(bits, vec.iter())); out is
\* <<1>> when they compare equal and <<0>> when they do not
Eq ==
    /\ last = NoCall
    /\ vec # NoVec
    /\ IF iter_panics(vec)
       THEN last' = Call("eq", 0, 0, TRUE, <<>>)
       ELSE \E other \in {from_iter(vec.bits, iter(vec))} :
               IF other = PanickedVec
               THEN last' = Call("eq", 0, 0, TRUE, <<>>)
               ELSE last' = Call("eq", 0, 0, FALSE,
                                 <<IF eq(vec, other) THEN 1 ELSE 0>>)
    /\ UNCHANGED <<overflow_checks, usize_bits, vec, shadow, sa_vars, index_vars, stack_vars>>

Return ==
    /\ last # NoCall
    /\ last' = NoCall
    /\ UNCHANGED <<overflow_checks, usize_bits, vec, shadow, sa_vars, index_vars, stack_vars>>

NextBitsVec ==
    \/ New \/ WithElements \/ Push \/ Extend
    \/ Get \/ CheckedGet \/ Set \/ Truncate \/ Clear \/ Eq \/ Return

SpecBitsVec == InitBitsVec /\ [][NextBitsVec]_vars

(***************************************************************************)
(* The suffix array specification: one call of suffix_array on an input,   *)
(* followed through the phases of suffix_array_stacked.  pc is the         *)
(* position in the function; a panic ends the call.                        *)
(***************************************************************************)
RECURSIVE Seqs(_, _)
\* the sequences of length n over S
Seqs(S, n) ==
    IF n = 0 THEN {<<>>} ELSE {Append(s, x) : s \in Seqs(S, n - 1), x \in S}

\* longer inputs: with repeated LMS substrings (they need a second level,
\* the last one a third), of one repeated byte, and with the length or the
\* largest byte a power of two
InputSamples ==
    { <<3, 2, 3, 1, 2, 0, 3, 1, 2>>,
      <<2, 0, 2, 0, 2, 1, 3, 0, 3, 1>>,
      <<0, 3, 0, 3, 0, 3, 1, 3, 2, 0, 1>>,
      <<1, 2, 1, 2, 1, 2, 3>>,
      <<3, 3, 3, 3, 3, 3>>,
      <<2, 1, 3, 1, 3, 1, 3, 0>>,
      <<2, 1, 4, 1, 4, 1>>,
      <<2, 0, 3, 0, 2, 0, 3, 0, 1, 0, 2, 0, 1, 0, 2, 0, 1, 0, 2>> }

Inputs == UNION {Seqs(0..MaxByte, n) : n \in 1..MaxLen} \cup InputSamples

InitSuffixArray ==
    /\ overflow_checks \in BOOLEAN
    /\ usize_bits = TextUsizeBits
    /\ cur_input \in Inputs
    /\ pc = "start"
    /\ cur_sa = NoSA
    /\ cur_is_recursive = FALSE
    /\ cur_stack = <<>>
    /\ result = <<>>
    /\ vec = NoVec /\ shadow = <<>> /\ last = NoCall
    /\ text = <<>> /\ phase = "idle" /\ bw = <<>> /\ fm = NoIndex /\ answer = NoAnswer
    /\ dump = NoDump /\ files = {} /\ popped = NoPop

\* let mut sa = SuffixArray::build(input.into_iter(), length)
Build ==
    /\ pc = "start"
    /\ cur_sa' = build(cur_input, Len(cur_input))
    /\ pc' = IF cur_sa'.panicked THEN "panicked" ELSE "built"
    /\ UNCHANGED <<overflow_checks, usize_bits, cur_input, cur_is_recursive, cur_stack, result>>
    /\ UNCHANGED <<bitsvec_vars, index_vars, stack_vars>>

\* is_recursive = sa.prepare_for_stacking()
Prepare ==
    /\ pc = "built"
    /\ \E prepared \in {prepare_for_stacking(cur_sa)} :
          /\ cur_sa' = prepared.sa
          /\ cur_is_recursive' = prepared.is_recursive
          /\ pc' = IF prepared.sa.panicked THEN "panicked" ELSE "prepared"
    /\ UNCHANGED <<overflow_checks, usize_bits, cur_input, cur_stack, result>>
    /\ UNCHANGED <<bitsvec_vars, index_vars, stack_vars>>

\* the body of "while is_recursive" with the next level built from the input
\* of the level and not from its reduced sequence
PushBackSameInput ==
    /\ pc = "prepared"
    /\ cur_is_recursive
    /\ cur_stack' = Append(cur_stack, cur_sa)
    /\ cur_sa' = IF iter_panics(cur_sa.input) THEN PanickedSA
                 ELSE build(iter(cur_sa.input), len(cur_sa.input))
    /\ pc' = IF cur_sa'.panicked THEN "panicked" ELSE "built"
    /\ UNCHANGED <<overflow_checks, usize_bits, cur_input, cur_is_recursive, result>>
    /\ UNCHANGED <<bitsvec_vars, index_vars, stack_vars>>

\* the body of "while is_recursive" up to the build of the next level
PushBack ==
    /\ pc = "prepared"
    /\ cur_is_recursive
    /\ cur_stack' = Append(cur_stack, cur_sa)
    /\ cur_sa' = IF iter_panics(cur_sa.array) THEN PanickedSA
                 ELSE build(iter(cur_sa.array), len(cur_sa.array))
    /\ pc' = IF cur_sa'.panicked THEN "panicked" ELSE "built"
    /\ UNCHANGED <<overflow_checks, usize_bits, cur_input, cur_is_recursive, result>>
    /\ UNCHANGED <<bitsvec_vars, index_vars, stack_vars>>

\* sa.fix_stacked() on the last level
FixStacked ==
    /\ pc = "prepared"
    /\ ~cur_is_recursive
    /\ cur_sa' = fix_stacked(cur_sa)
    /\ pc' = IF cur_sa'.panicked THEN "panicked" ELSE "fixed"
    /\ UNCHANGED <<overflow_checks, usize_bits, cur_input, cur_is_recursive, cur_stack, result>>
    /\ UNCHANGED <<bitsvec_vars, index_vars, stack_vars>>

\* the body of "while let Some(mut next_sa) = stack.pop_back()"
PopBack ==
    /\ pc = "fixed"
    /\ cur_stack # <<>>
    /\ \E next_sa \in {[cur_stack[Len(cur_stack)] EXCEPT !.array = cur_sa.array]} :
          cur_sa' = fix_stacked(next_sa)
    /\ cur_stack' = SubSeq(cur_stack, 1, Len(cur_stack) - 1)
    /\ pc' = IF cur_sa'.panicked THEN "panicked" ELSE "fixed"
    /\ UNCHANGED <<overflow_checks, usize_bits, cur_input, cur_is_recursive, result>>
    /\ UNCHANGED <<bitsvec_vars, index_vars, stack_vars>>

\* sa.array.iter().collect()
Collect ==
    /\ pc = "fixed"
    /\ cur_stack = <<>>
    /\ IF iter_panics(cur_sa.array)
       THEN pc' = "panicked" /\ UNCHANGED result
       ELSE pc' = "returned" /\ result' = iter(cur_sa.array)
    /\ UNCHANGED <<overflow_checks, usize_bits, cur_input, cur_sa, cur_is_recursive, cur_stack>>
    /\ UNCHANGED <<bitsvec_vars, index_vars, stack_vars>>

NextSuffixArray == Build \/ Prepare \/ PushBack \/ FixStacked \/ PopBack \/ Collect

SpecSuffixArray == InitSuffixArray /\ [][NextSuffixArray]_vars

(***************************************************************************)
(* The stack specification: suffix_array_stacked runs with a StackDump,    *)
(* or push_back and pop_back are called in any order; a Vec (cur_stack) is *)
(* given the same calls.                                                   *)
(***************************************************************************)
\* the names StackDump::new draws from (ten random characters in the source)
Names == {"a", "b"}

\* the inputs of the builds with the file-backed stack
DumpInputs == InputSamples \cup {<<0>>, <<1, 0, 3>>, <<1, 0, 3, 0, 3>>}

\* the frames pushed when the calls come in any order: levels as
\* prepare_for_stacking leaves them
StackFrames ==
    {frame \in {prepare_for_stacking(build(input, Len(input))).sa :
                    input \in {<<1, 0, 3>>, <<0, 0, 3>>, <<1, 0, 3, 0, 3>>}} :
        ~frame.panicked}

\* the working directory is empty or holds a scratch file of another build,
\* whose name is not the one drawn by this build
InitStackDump ==
    /\ overflow_checks \in BOOLEAN
    /\ usize_bits = TextUsizeBits
    /\ \E name \in Names :
          /\ dump = StackDump_new(name)
          /\ files \in {{}, {[name |-> other, count |-> 0, data |-> <<>>] :
                                other \in Names \ {name}}}
    /\ \/ pc = "start" /\ cur_input \in DumpInputs
       \/ pc = "stack" /\ cur_input = <<>>
    /\ cur_sa = NoSA
    /\ cur_is_recursive = FALSE
    /\ cur_stack = <<>>
    /\ result = <<>>
    /\ popped = NoPop
    /\ vec = NoVec /\ shadow = <<>> /\ last = NoCall
    /\ text = <<>> /\ phase = "idle" /\ bw = <<>> /\ fm = NoIndex /\ answer = NoAnswer

\* the body of "while is_recursive" up to the build of the next level, the
\* stack being a StackDump
DumpPushBack ==
    /\ pc = "prepared"
    /\ dump # NoDump
    /\ cur_is_recursive
    /\ \E pushed \in {push_back(dump, files, cur_sa)} :
          dump' = pushed.self /\ files' = pushed.files
    /\ cur_stack' = vec_push_back(cur_stack, cur_sa)
    /\ cur_sa' = IF iter_panics(cur_sa.array) THEN PanickedSA
                 ELSE build(iter(cur_sa.array), len(cur_sa.array))
    /\ pc' = IF cur_sa'.panicked THEN "panicked" ELSE "built"
    /\ UNCHANGED <<overflow_checks, usize_bits, cur_input, cur_is_recursive, result, popped>>
    /\ UNCHANGED <<bitsvec_vars, index_vars>>

\* an iteration of "while let Some(mut next_sa) = stack.pop_back()", the
\* stack being a StackDump
DumpPopBack ==
    /\ pc = "fixed"
    /\ dump.count > 0
    /\ \E out \in {pop_back(dump, files)}, reference \in {vec_pop_back(cur_stack)} :
          /\ dump' = out.self
          /\ files' = out.files
          /\ cur_stack' = reference.self
          /\ popped' = [op |-> "pop_back", vec |-> reference.value,
                        dump |-> out.value, panicked |-> out.panicked]
          /\ cur_sa' = IF out.panicked THEN PanickedSA
                       ELSE fix_stacked([out.value[1] EXCEPT !.array = cur_sa.array])
    /\ pc' = IF cur_sa'.panicked THEN "panicked" ELSE "fixed"
    /\ UNCHANGED <<overflow_checks, usize_bits, cur_input, cur_is_recursive, result>>
    /\ UNCHANGED <<bitsvec_vars, index_vars>>

\* the pop_back that returns None, and sa.array.iter().collect()
DumpCollect ==
    /\ pc = "fixed"
    /\ dump # NoDump
    /\ dump.count = 0
    /\ \E out \in {pop_back(dump, files)}, reference \in {vec_pop_back(cur_stack)} :
          /\ dump' = out.self
          /\ files' = out.files
          /\ cur_stack' = reference.self
          /\ popped' = [op |-> "pop_back", vec |-> reference.value,
                        dump |-> out.value, panicked |-> out.panicked]
    /\ IF iter_panics(cur_sa.array)
       THEN pc' = "panicked" /\ UNCHANGED result
       ELSE pc' = "returned" /\ result' = iter(cur_sa.array)
    /\ UNCHANGED <<overflow_checks, usize_bits, cur_input, cur_sa, cur_is_recursive>>
    /\ UNCHANGED <<bitsvec_vars, index_vars>>

\* stack.push_back(value) on both stacks
StackPushBack ==
    /\ pc = "stack"
    /\ dump.count < MaxFrames
    /\ \E value \in StackFrames :
          /\ \E pushed \in {push_back(dump, files, value)} :
                dump' = pushed.self /\ files' = pushed.files
          /\ cur_stack' = vec_push_back(cur_stack, value)
    /\ UNCHANGED <<overflow_checks, usize_bits, cur_input, pc, cur_sa, cur_is_recursive,
                   result, popped>>
    /\ UNCHANGED <<bitsvec_vars, index_vars>>

\* stack.pop_back() on both stacks
StackPopBack ==
    /\ pc = "stack"
    /\ \E out \in {pop_back(dump, files)}, reference \in {vec_pop_back(cur_stack)} :
          /\ dump' = out.self
          /\ files' = out.files
          /\ cur_stack' = reference.self
          /\ popped' = [op |-> "pop_back", vec |-> reference.value,
                        dump |-> out.value, panicked |-> out.panicked]
          /\ pc' = IF out.panicked THEN "panicked" ELSE "stack"
    /\ UNCHANGED <<overflow_checks, usize_bits, cur_input, cur_sa, cur_is_recursive, result>>
    /\ UNCHANGED <<bitsvec_vars, index_vars>>

NextStackDump ==
    \/ Build \/ Prepare \/ DumpPushBack \/ FixStacked \/ DumpPopBack \/ DumpCollect
    \/ StackPushBack \/ StackPopBack

SpecStackDump == InitStackDump /\ [][NextStackDump]_vars

(***************************************************************************)
(* The index specification: a text is transformed (bwt, then ibwt) or      *)
(* indexed (FMIndex::new, or new_from_bwt on its Burrows-Wheeler           *)
(* transform), and the index is asked one query.                           *)
(***************************************************************************)
\* longer texts without a zero byte
\* "Hello, Hello, Hello" and "llo" of the example of nearest, each byte
\* written as its rank among the bytes of the text (space 1, comma 2, H 3,
\* e 4, l 5, o 6): the ranks keep the order of the bytes and fit the word of
\* the word
Hello == <<3, 4, 5, 5, 6, 2, 1, 3, 4, 5, 5, 6, 2, 1, 3, 4, 5, 5, 6>>

llo == <<5, 5, 6>>

TextSamples ==
    { <<1, 2, 1, 2, 1>>,
      <<2, 1, 3, 1, 3, 1, 3>>,
      <<3, 1, 2, 3, 1, 2>>,
      Hello }

Texts == UNION {Seqs(0..MaxByte, n) : n \in 1..MaxText} \cup TextSamples

\* the queries: every byte sequence up to MaxPattern bytes, the empty one
\* and bytes that are not in the text included
Patterns == UNION {Seqs(0..MaxByte, n) : n \in 0..MaxPattern} \cup {llo}

\* the suffix of S that starts at position i (0-based)
suffix_at(S, i) == SubSeq(S, i + 1, Len(S))

RECURSIVE seq_less(_, _)
\* lexicographic order, a proper prefix being smaller
seq_less(a, b) ==
    IF b = <<>> THEN FALSE
    ELSE IF a = <<>> THEN TRUE
    ELSE IF a[1] # b[1] THEN a[1] < b[1]
    ELSE seq_less(Tail(a), Tail(b))

\* the suffix array of S by definition: the positions 0..n ordered by
\* their suffixes, the empty suffix (position n) first
sorted_suffixes(S) ==
    [r \in 1..(Len(S) + 1) |->
        CHOOSE i \in 0..Len(S) :
            Cardinality({j \in 0..Len(S) :
                            seq_less(suffix_at(S, j), suffix_at(S, i))}) = r - 1]

\* the Burrows-Wheeler transform of S by definition
transform_of(S) ==
    LET SA == sorted_suffixes(S) IN
    [r \in 1..(Len(S) + 1) |-> IF SA[r] = 0 THEN 0 ELSE S[SA[r]]]

\* the positions (0-based) where P occurs in S
occurrences(S, P) ==
    {p \in 0..Len(S) : p + Len(P) <= Len(S) /\ SubSeq(S, p + 1, p + Len(P)) = P}

InitIndex ==
    /\ overflow_checks \in BOOLEAN
    /\ usize_bits = TextUsizeBits
    /\ text \in Texts
    /\ phase = "start"
    /\ bw = <<>>
    /\ fm = NoIndex
    /\ answer = NoAnswer
    /\ vec = NoVec /\ shadow = <<>> /\ last = NoCall
    /\ cur_input = <<>> /\ pc = "idle" /\ cur_sa = NoSA /\ cur_is_recursive = FALSE
    /\ cur_stack = <<>> /\ result = <<>>
    /\ dump = NoDump /\ files = {} /\ popped = NoPop

\* let bw = bwt(text)
Bwt ==
    /\ phase = "start"
    /\ \E transformed \in {bwt(text)} :
          IF transformed.panicked
          THEN phase' = "bwt_panicked" /\ UNCHANGED bw
          ELSE phase' = "bwt" /\ bw' = transformed.value
    /\ UNCHANGED <<overflow_checks, usize_bits, text, fm, answer>>
    /\ UNCHANGED <<bitsvec_vars, sa_vars, stack_vars>>

\* ibwt(&bw), bw being what bwt returned or the transform of the text
Ibwt ==
    /\ phase \in {"bwt", "new_from_bwt"}
    /\ answer = NoAnswer
    /\ answer' = [NoAnswer EXCEPT !.op = "ibwt", !.query = bw, !.bytes = ibwt(bw)]
    /\ UNCHANGED <<overflow_checks, usize_bits, text, phase, bw, fm>>
    /\ UNCHANGED <<bitsvec_vars, sa_vars, stack_vars>>

\* FMIndex::new(text)
NewIndex ==
    /\ phase = "start"
    /\ \E built \in {new_index(text)} :
          IF built.panicked
          THEN phase' = "new_panicked" /\ UNCHANGED fm
          ELSE phase' = "new" /\ fm' = built.index
    /\ UNCHANGED <<overflow_checks, usize_bits, text, bw, answer>>
    /\ UNCHANGED <<bitsvec_vars, sa_vars, stack_vars>>

\* FMIndex::new_from_bwt(bw), bw being the transform of the text
NewFromBwt ==
    /\ phase = "start"
    /\ bw' = transform_of(text)
    /\ fm' = new_from_bwt(bw')
    /\ phase' = "new_from_bwt"
    /\ UNCHANGED <<overflow_checks, usize_bits, text, answer>>
    /\ UNCHANGED <<bitsvec_vars, sa_vars, stack_vars>>

\* fm.count(query)
CountCall(query) ==
    /\ phase \in {"new", "new_from_bwt"}
    /\ answer = NoAnswer
    /\ \E counted \in {count(fm, query)} :
          answer' = [NoAnswer EXCEPT !.op = "count", !.query = query,
                                     !.count = counted.value,
                                     !.range = get_range(fm, query),
                                     !.panicked = counted.panicked]
    /\ UNCHANGED <<overflow_checks, usize_bits, text, phase, bw, fm>>
    /\ UNCHANGED <<bitsvec_vars, sa_vars, stack_vars>>

\* fm.search(query)
SearchCall(query) ==
    /\ phase \in {"new", "new_from_bwt"}
    /\ answer = NoAnswer
    /\ \E found \in {search(fm, query)} :
          answer' = [NoAnswer EXCEPT !.op = "search", !.query = query,
                                     !.positions = found.value,
                                     !.range = get_range(fm, query),
                                     !.panicked = found.panicked]
    /\ UNCHANGED <<overflow_checks, usize_bits, text, phase, bw, fm>>
    /\ UNCHANGED <<bitsvec_vars, sa_vars, stack_vars>>

\* fm.nearest(idx, ch) for a position 0..data.len() and a byte, the first
\* byte above MaxByte included
Nearest ==
    /\ phase \in {"new", "new_from_bwt"}
    /\ answer = NoAnswer
    /\ \E idx \in 0..Len(fm.data), ch \in 0..(MaxByte + 1) :
          answer' = [NoAnswer EXCEPT !.op = "nearest", !.query = <<ch>>,
                                     !.idx = idx,
                                     !.count = nearest(fm, idx, ch),
                                     !.panicked = nearest_panics(fm, idx, ch)]
    /\ UNCHANGED <<overflow_checks, usize_bits, text, phase, bw, fm>>
    /\ UNCHANGED <<bitsvec_vars, sa_vars, stack_vars>>

\* the streams a file may hold when the index is read back: what io::write
\* wrote, the encoding of the index with one table one element short, and
\* what was written without its last element
Streams ==
    {encode_index(fm)}
    \cup {encode_index([fm EXCEPT ![field] = SubSeq(@, 1, Len(@) - 1)]) :
              field \in {"data", "cache", "occ_map", "lf_vec"}}
    \cup {SubSeq(encode_index(fm), 1, Len(encode_index(fm)) - 1)}

\* io::read::<FMIndex>(path) of a file holding one of the streams
Decode ==
    /\ phase \in {"new", "new_from_bwt"}
    /\ answer = NoAnswer
    /\ \E stream \in Streams :
          \E decoded \in {decode_index(stream)} :
              IF decoded.panicked
              THEN phase' = "decode_panicked" /\ UNCHANGED fm
              ELSE phase' = "decoded" /\ fm' = decoded.index
    /\ UNCHANGED <<overflow_checks, usize_bits, text, bw, answer>>
    /\ UNCHANGED <<bitsvec_vars, sa_vars, stack_vars>>

Count == \E query \in Patterns : CountCall(query)

Search == \E query \in Patterns : SearchCall(query)

NextIndex ==
    \/ Bwt \/ Ibwt \/ NewIndex \/ NewFromBwt
    \/ Nearest \/ Count \/ Search \/ Decode

SpecIndex == InitIndex /\ [][NextIndex]_vars

(***************************************************************************)
(* Properties of BitsVec (checked under SpecBitsVec).                      *)
(***************************************************************************)
\* bit p of the backing words, counted from the most significant bit of
\* word 0 (the order in which elements are laid out)
bit_at(self, p) ==
    (self.inner[(p \div self.max_bits) + 1]
        \div Pow2(self.max_bits - 1 - (p % self.max_bits))) % 2

\* the bit positions the backing words hold
bit_positions(self) == 0..(Len(self.inner) * self.max_bits - 1)

\* the bit positions of element i
element_bits(self, i) == (i * self.bits)..((i + 1) * self.bits - 1)

\* element i lies in two backing words
straddles(self, i) ==
    /\ self.bits >= 1
    /\ (i * self.bits) \div self.max_bits
         # ((i + 1) * self.bits - 1) \div self.max_bits

\* the values of a width
InRange(bits) == {value \in Values(bits) : value < Pow2(bits)}

\* C6: for every width in [1, W), a push of a value of that width is
\* accepted, increases len by one, get(len-1) returns the pushed value,
\* every earlier index returns what it returned before, and iter() yields
\* the values in order.
C6_PushRoundTrip ==
    (last.op = "push" /\ last.v < Pow2(vec.bits) /\ vec.bits >= 1) =>
        /\ ~last.panicked
        /\ len(vec) = len(last.pre) + 1
        /\ get(vec, len(vec) - 1) = last.v
        /\ \A j \in 0..(len(last.pre) - 1) : get(vec, j) = get(last.pre, j)
        /\ iter(vec) = shadow

\* C6 witness: a pushed element that lies in two backing words
C6_Witness ==
    /\ last.op = "push"
    /\ ~last.panicked
    /\ vec.units >= 2
    /\ straddles(vec, vec.units - 1)
    /\ last.v = Pow2(vec.bits) - 1

\* C7: set(i, v) with a valid index and value is accepted, makes get(i)
\* return v, leaves every other element, len, the number of backing words
\* and leftover as they were, and rewrites no bit outside element i.
C7_SetFrame ==
    (last.op = "set" /\ last.i < len(last.pre) /\ last.v < Pow2(vec.bits)) =>
        /\ ~last.panicked
        /\ get(vec, last.i) = last.v
        /\ \A j \in (0..(len(vec) - 1)) \ {last.i} : get(vec, j) = get(last.pre, j)
        /\ len(vec) = len(last.pre)
        /\ Len(vec.inner) = Len(last.pre.inner)
        /\ vec.leftover = last.pre.leftover
        /\ \A p \in bit_positions(vec) \ element_bits(vec, last.i) :
              bit_at(vec, p) = bit_at(last.pre, p)

\* C7 witness: a set of an element that lies in two backing words, with
\* elements on both sides of it
C7_Witness ==
    /\ last.op = "set"
    /\ ~last.panicked
    /\ last.i >= 1
    /\ last.i + 1 < vec.units
    /\ straddles(vec, last.i)
    /\ last.v = 1
    /\ get(last.pre, last.i) = Pow2(vec.bits) - 1
    /\ get(vec, last.i - 1) = Pow2(vec.bits) - 1
    /\ get(vec, last.i + 1) = Pow2(vec.bits) - 1

\* C8: truncate(k) with k < len is accepted, leaves len = k and the first k
\* elements as they were, zeroes every bit after them, and the pushes that
\* follow read back: get(k) is the first pushed value, get(k+1) the second.
C8_TruncateThenPush ==
    (last.op = "truncate" /\ last.i < len(last.pre)) =>
        /\ ~last.panicked
        /\ len(vec) = last.i
        /\ \A j \in 0..(last.i - 1) : get(vec, j) = get(last.pre, j)
        /\ \A p \in bit_positions(vec) :
              p >= last.i * vec.bits => bit_at(vec, p) = 0
        /\ \A v1 \in InRange(vec.bits), v2 \in InRange(vec.bits) :
              LET p1 == push(vec, v1)
                  p2 == push(p1, v2)
              IN  /\ len(p2) = last.i + 2
                  /\ get(p1, last.i) = v1
                  /\ get(p2, last.i) = v1
                  /\ get(p2, last.i + 1) = v2
                  /\ \A j \in 0..(last.i - 1) : get(p2, j) = get(last.pre, j)

\* C8 witness: a truncation that ends inside a word and removes elements
\* with set bits from that word and from the word after it
C8_Witness ==
    /\ last.op = "truncate"
    /\ ~last.panicked
    /\ vec.units >= 1
    /\ (vec.units * vec.bits) % vec.max_bits # 0
    /\ Len(last.pre.inner) > Len(vec.inner)
    /\ \A j \in 0..(len(last.pre) - 1) : get(last.pre, j) = Pow2(vec.bits) - 1

\* C9: new(w) succeeds exactly when 1 <= w < W and fails for every other
\* width, w = 0 included.
C9_NewChecksWidth ==
    last.op = "new" =>
        (last.panicked <=> ~(1 <= last.v /\ last.v < usize_bits))

\* C10: push and set fail on a value of 2^w or more, get and set fail on an
\* index of len or more, checked_get returns None exactly for such an index
\* and the element otherwise, and a call that fails leaves the vector as it
\* was.
C10_RejectedCallsChangeNothing ==
    /\ (last.op \in {"push", "set"} /\ last.v >= Pow2(last.pre.bits)) => last.panicked
    /\ (last.op \in {"get", "set"} /\ last.i >= len(last.pre)) => last.panicked
    /\ last.op = "checked_get" =>
          IF last.i >= len(last.pre)
          THEN ~last.panicked /\ last.out = << <<>> >>
          ELSE ~last.panicked => last.out = << <<shadow[last.i + 1]>> >>
    /\ (last.op \in {"push", "set", "get", "checked_get"} /\ last.panicked) =>
          vec = last.pre

\* C10 witness: a set that failed on a vector holding elements in two words
C10_Witness ==
    /\ last.op = "set"
    /\ last.panicked
    /\ last.i < vec.units
    /\ Len(vec.inner) >= 2
    /\ vec.bits >= 1

\* C11: for every reachable vector of a width in [1, W), every new_len > len
\* and every v < 2^w, extend_with_element(new_len, v) is accepted and leaves
\* exactly the state (len, backing words, leftover) that new_len - len
\* pushes of v leave: len = new_len, the old elements are unchanged and
\* every new element is v; with_elements(w, n, v) for n >= 1 is n copies of
\* v.
C11_ExtendIsRepeatedPush ==
    /\ (/\ last.op = "extend"
        /\ last.i > len(last.pre)
        /\ last.v < Pow2(vec.bits)
        /\ vec.bits >= 1) =>
          /\ ~last.panicked
          /\ vec = push_repeated(last.pre, last.v, last.i - len(last.pre))
          /\ len(vec) = last.i
          /\ \A j \in 0..(len(last.pre) - 1) : get(vec, j) = get(last.pre, j)
          /\ \A j \in len(last.pre)..(last.i - 1) : get(vec, j) = last.v
          /\ iter(vec) = shadow
    /\ (/\ last.op = "with_elements"
        /\ last.i >= 1
        /\ last.out[1] >= 1 /\ last.out[1] < usize_bits
        /\ last.v < Pow2(last.out[1])) =>
          /\ ~last.panicked
          /\ vec = push_repeated(new(last.out[1]), last.v, last.i)
          /\ len(vec) = last.i
          /\ iter(vec) = [k \in 1..last.i |-> last.v]

\* C11 witness: an extension of a vector whose last word is partly used,
\* by enough elements to fill that word, at least one whole word after it
\* and a part of one more
C11_Witness ==
    /\ last.op = "extend"
    /\ ~last.panicked
    /\ vec.bits >= 1
    /\ vec.max_bits % vec.bits = 0
    /\ last.pre.units >= 1
    /\ last.pre.leftover > 0
    /\ last.pre.leftover < vec.max_bits
    /\ last.v = Pow2(vec.bits) - 1
    /\ (last.i - len(last.pre)) - (last.pre.leftover \div vec.bits)
          > vec.max_bits \div vec.bits
    /\ ((last.i - len(last.pre)) - (last.pre.leftover \div vec.bits))
          % (vec.max_bits \div vec.bits) # 0

\* C12: extend_with_element(new_len, v) with new_len = len is accepted and
\* leaves the vector as it was, and with_elements(w, 0, v) returns an empty
\* vector.
C12_ExtendToSameLength ==
    /\ (/\ last.op = "extend"
        /\ last.i = len(last.pre)
        /\ last.v < Pow2(last.pre.bits)) =>
          /\ ~last.panicked
          /\ vec = last.pre
    /\ (/\ last.op = "with_elements"
        /\ last.i = 0
        /\ last.out[1] >= 1 /\ last.out[1] < usize_bits
        /\ last.v < Pow2(last.out[1])) =>
          /\ ~last.panicked
          /\ vec # NoVec
          /\ len(vec) = 0

\* C13: truncate(len) is accepted and leaves the vector as it was, and
\* clear() is accepted on every vector, an empty one included, and leaves
\* len = 0.
C13_TruncateToSameLength ==
    /\ (last.op = "truncate" /\ last.i = len(last.pre)) =>
          /\ ~last.panicked
          /\ vec = last.pre
    /\ last.op = "clear" =>
          /\ ~last.panicked
          /\ len(vec) = 0

\* C17: after any sequence of new, push, set, extend_with_element and
\* truncate, the vector has at least one backing word, 0 <= leftover <= W,
\* (number of words) * W - len * w = leftover, and every bit after the last
\* element is zero.
C17_VectorInvariant ==
    vec # NoVec =>
        /\ Len(vec.inner) >= 1
        /\ 0 <= vec.leftover /\ vec.leftover <= vec.max_bits
        /\ Len(vec.inner) * vec.max_bits - len(vec) * vec.bits = vec.leftover
        /\ \A p \in bit_positions(vec) :
              p >= len(vec) * vec.bits => bit_at(vec, p) = 0

\* C17 witness: a vector that was extended over a word boundary, had an
\* element set and was truncated to the end of its first word, so that an
\* empty word follows its elements
C17_Witness ==
    /\ last.op = "truncate"
    /\ ~last.panicked
    /\ vec.bits >= 1
    /\ vec.bits >= 2
    /\ vec.units >= 2
    /\ vec.leftover = vec.max_bits
    /\ Len(vec.inner) = 2
    /\ len(last.pre) >= len(vec) + 2
    /\ get(vec, 0) = 1
    /\ \A j \in 1..(len(last.pre) - 1) : get(last.pre, j) = Pow2(vec.bits) - 1

\* C26: two vectors of the same width that hold the same sequence of
\* elements compare equal with ==, whatever calls produced them: a vector
\* compares equal to the vector filled with its elements by pushes.
C26_EqualElementsCompareEqual ==
    (last.op = "eq" /\ ~last.panicked) => last.out = <<1>>

(***************************************************************************)
(* Properties of suffix_array (checked under SpecSuffixArray).             *)
(***************************************************************************)
\* out is the suffix array of S: n+1 entries, a permutation of 0..n, the
\* empty suffix first and the suffixes in strictly increasing order
is_suffix_array(S, out) ==
    /\ Len(out) = Len(S) + 1
    /\ {out[r] : r \in 1..Len(out)} = 0..Len(S)
    /\ out[1] = Len(S)
    /\ \A r \in 2..Len(S) : seq_less(suffix_at(S, out[r]), suffix_at(S, out[r + 1]))

\* C1: for every non-empty input S of length n, suffix_array(S) returns
\* without failing, and what it returns has length n+1, is a permutation of
\* 0..n, starts with n and lists the suffixes in strictly increasing
\* lexicographic order.
C1_SuffixArraySorted ==
    /\ pc # "panicked"
    /\ pc = "returned" => is_suffix_array(cur_input, result)

\* C18: on a non-empty input, at every level, every value pushed or set
\* into a packed vector during suffix_array fits the vector's width, so
\* that no step of the construction fails; an input of one repeated byte
\* and the last bucket tail (both equal to the length) included.
C18_ValuesFitWidths ==
    /\ ~cur_sa.panicked
    /\ pc \in {"built", "prepared", "fixed"} =>
          /\ \A k \in 0..(len(cur_sa.array) - 1) : ~get_panics(cur_sa.array, k)
          /\ ~iter_panics(cur_sa.array)

\* a step of the first loop: the level is pushed as it is, and the next
\* level's input is its reduced sequence, strictly shorter than its input
C21_PushStep ==
    /\ pc = "prepared"
    /\ cur_stack' = Append(cur_stack, cur_sa)
    /\ ~cur_sa'.panicked =>
          /\ iter(cur_sa'.input) = iter(cur_sa.array)
          /\ len(cur_sa'.input) < len(cur_sa.input)

\* a step of the second loop: the frame pushed last leaves the stack, gets
\* the finished array of the level below it and is completed by fix_stacked
C21_PopStep ==
    /\ pc = "fixed"
    /\ cur_stack = Append(cur_stack', cur_stack[Len(cur_stack)])
    /\ cur_sa' = fix_stacked([cur_stack[Len(cur_stack)] EXCEPT !.array = cur_sa.array])
    /\ ~cur_sa'.panicked => cur_sa'.input = cur_stack[Len(cur_stack)].input

\* the number of steps suffix_array_stacked can still take is at most this:
\* three for every byte of the input of the level being built or prepared,
\* one for every frame on the stack
C21_Variant ==
    CASE pc = "start" -> 3 * Len(cur_input) + 4
      [] pc = "built" -> 3 * len(cur_sa.input) + Len(cur_stack) + 3
      [] pc = "prepared" -> 3 * len(cur_sa.input) + Len(cur_stack) + 2
      [] pc = "fixed" -> Len(cur_stack) + 1
      [] OTHER -> 0

\* C21: the stacking loop of suffix_array_stacked terminates on every input:
\* the input of each next level is the reduced sequence of the level pushed
\* and is strictly shorter than that level's input, so that every step
\* lowers a natural number and only finitely many frames are pushed;
\* afterwards the frames are popped in reverse push order, each gets the
\* finished array of its child and is completed by fix_stacked once (a level
\* is fixed only when it is the last one or has just been popped, and no
\* level is pushed once fixing has begun); the stack is empty when the
\* result is returned.
C21_StackingTerminates ==
    /\ [][/\ C21_Variant' < C21_Variant
          /\ cur_stack' # cur_stack => C21_PushStep \/ C21_PopStep
          /\ (pc = "fixed" /\ pc' = "fixed") => C21_PopStep
          /\ pc = "fixed" => pc' \in {"fixed", "returned", "panicked"}]_vars
    /\ [](\A k \in 1..(Len(cur_stack) - 1) :
             len(cur_stack[k + 1].input) < len(cur_stack[k].input))
    /\ [](pc = "returned" => cur_stack = <<>>)

\* a build that stacked two levels has returned
C21_Witness ==
    /\ pc = "returned"
    /\ Len(stack_levels(prepare_for_stacking(build(cur_input, Len(cur_input))), <<>>).stack) = 2

\* the LMS substring of position p of a level, from p up to and including the
\* next LMS position: the symbol and the class at every offset, the sentinel
\* (at the position after the last symbol) being the symbol -1
C23_LmsSubstring(self, p) ==
    IF p = len(self.input) THEN << <<-1, LeftMostSmall>> >>
    ELSE LET q == CHOOSE q \in (p + 1)..len(self.input) :
                     /\ get(self.type_map, q) = LeftMostSmall
                     /\ \A m \in (p + 1)..(q - 1) : get(self.type_map, m) # LeftMostSmall
         IN  [k \in 1..(q - p + 1) |->
                <<IF p + k - 1 = len(self.input) THEN -1 ELSE get(self.input, p + k - 1),
                  get(self.type_map, p + k - 1)>>]

\* the rank prepare_for_stacking gave to the i-th LMS position of the level:
\* the i-th symbol of the reduced sequence when the level is recursive, the
\* place of i in the summary suffix array when it is not
C23_Rank(self, is_recursive, i) ==
    IF is_recursive THEN get(self.array, i)
    ELSE (CHOOSE r \in 1..(len(self.array) - 1) : get(self.array, r) = i) - 1

\* the place of position p in the array the induced sort produced
C23_SortedPlace(approx_sa, p) ==
    CHOOSE r \in 0..(len(approx_sa) - 1) : get(approx_sa, r) = p

\* C23: at every level, two LMS positions get the same rank from
\* prepare_for_stacking if and only if their LMS substrings (from the LMS
\* position up to and including the next one) have the same length, the
\* same symbols and the same class at every offset; the substring of the
\* sentinel equals no other, and the ranks follow the order in which the
\* induced sort left the LMS positions.
C23_LmsRenaming ==
    pc = "prepared" =>
        LET lms == [i \in 0..(len(cur_sa.temp_array) - 1) |-> get(cur_sa.temp_array, i)]
            rank == [i \in DOMAIN lms |-> C23_Rank(cur_sa, cur_is_recursive, i)]
            approx_sa == induced_sort_small(induced_sort_large(
                             build(iter(cur_sa.input), len(cur_sa.input)))).array
        IN  \A i, j \in DOMAIN lms :
               /\ (rank[i] = rank[j]) <=>
                     (C23_LmsSubstring(cur_sa, lms[i]) = C23_LmsSubstring(cur_sa, lms[j]))
               /\ C23_SortedPlace(approx_sa, lms[i]) < C23_SortedPlace(approx_sa, lms[j])
                     => rank[i] <= rank[j]

\* C22: the file-backed stack behaves like the in-memory stack given the
\* same calls: it holds as many frames, the file <name>_<k> of each frame
\* decodes to the k-th frame of the Vec, pop_back returns what the Vec's
\* pop_back returns (the frame pushed last, or None when empty) and never
\* fails; a scratch file <name>_<k> exists exactly while k < count, and when
\* a build has returned no scratch file with its name is left.
C22_StackDumpIsVec ==
    dump # NoDump =>
        /\ dump.count = Len(cur_stack)
        /\ \A k \in 0..(dump.count - 1) :
              /\ Cardinality(files_at(files, dump.name, k)) = 1
              /\ \A file \in files_at(files, dump.name, k) :
                    decode_sa(file.data) = [sa |-> cur_stack[k + 1], panicked |-> FALSE]
        /\ \A file \in files : file.name = dump.name => file.count < dump.count
        /\ ~popped.panicked
        /\ popped.dump = popped.vec
        /\ pc = "returned" => \A file \in files : file.name # dump.name

\* a build with the file-backed stack has returned after two frames went
\* through scratch files
C22_Witness ==
    /\ dump # NoDump
    /\ pc = "returned"
    /\ popped.op = "pop_back"
    /\ Len(stack_levels(prepare_for_stacking(build(cur_input, Len(cur_input))), <<>>).stack) = 2

\* C24: whenever suffix_array returns for an input S of length n >= 1, what
\* it returns has n+1 entries, starts with n and lists the positions 0..n-1
\* in strictly increasing order of their suffixes, whether the first level
\* resolved the LMS suffixes directly or levels were stacked.
C24_PartialCorrectness ==
    pc = "returned" =>
        /\ Len(result) = Len(cur_input) + 1
        /\ result[1] = Len(cur_input)
        /\ {result[r] : r \in 2..Len(result)} = 0..(Len(cur_input) - 1)
        /\ \A r \in 2..Len(cur_input) :
              seq_less(suffix_at(cur_input, result[r]), suffix_at(cur_input, result[r + 1]))

\* a build that stacked at least one level has returned
C24_Witness ==
    /\ pc = "returned"
    /\ stack_levels(prepare_for_stacking(build(cur_input, Len(cur_input))), <<>>).stack # <<>>

(***************************************************************************)
(* Properties of bwt, ibwt and FMIndex (checked under SpecIndex).          *)
(***************************************************************************)
\* C2: for every non-empty byte sequence S, bwt(S) returns the n+1 bytes
\* bwt(S)[i] = 0 if SA[i] = 0 and S[SA[i]-1] otherwise, and ibwt of them is S.
C2_BwtRoundTrip ==
    /\ phase # "bwt_panicked"
    /\ phase = "bwt" => bw = transform_of(text)
    /\ answer.op = "ibwt" => answer.bytes = text

\* C3: for every text S and pattern P, FMIndex::new(S) returns an index
\* whose count(P) is the number of positions where P occurs in S.
C3_CountOfNewIndex ==
    /\ phase # "new_panicked"
    /\ (phase = "new" /\ answer.op = "count") =>
          /\ ~answer.panicked
          /\ answer.count = Cardinality(occurrences(text, answer.query))

\* C4: for every text S and pattern P, FMIndex::new(S) returns an index
\* whose search(P) lists exactly the positions where P occurs in S, each
\* once.
C4_SearchOfNewIndex ==
    /\ phase # "new_panicked"
    /\ (phase = "new" /\ answer.op = "search") =>
          /\ ~answer.panicked
          /\ {answer.positions[k] : k \in 1..Len(answer.positions)}
                = occurrences(text, answer.query)
          /\ Len(answer.positions) = Cardinality(occurrences(text, answer.query))

\* the text has no zero byte
zero_free(S) == \A k \in 1..Len(S) : S[k] # 0

\* C5: an index made by new_from_bwt from the transform of a text without
\* a zero byte answers count(P) with the number of occurrences of P and
\* search(P) with exactly their positions; the range of the backward
\* search stays within 0 <= top <= bottom <= n+1 and no access is out of
\* range.
C5_IndexFromBwt ==
    (phase = "new_from_bwt" /\ zero_free(text) /\ answer.op \in {"count", "search"}) =>
        /\ ~answer.panicked
        /\ 0 <= answer.range.top
        /\ answer.range.top <= answer.range.bottom
        /\ answer.range.bottom <= Len(text) + 1
        /\ answer.op = "count" =>
              answer.count = Cardinality(occurrences(text, answer.query))
        /\ answer.op = "search" =>
              /\ {answer.positions[k] : k \in 1..Len(answer.positions)}
                    = occurrences(text, answer.query)
              /\ Len(answer.positions) = Cardinality(occurrences(text, answer.query))

\* C5 witness: a search for a pattern of two bytes that occurs twice
C5_Witness ==
    /\ phase = "new_from_bwt"
    /\ zero_free(text)
    /\ answer.op = "search"
    /\ ~answer.panicked
    /\ Len(answer.query) = 2
    /\ Len(answer.positions) = 2
    /\ answer.positions[1] # answer.positions[2]

\* C25: ibwt inverts the transform for every byte content: for B the
\* transform of S by definition (SA being the suffix array of S by
\* definition), ibwt(B) = S, texts that hold the byte 0 included.
C25_IbwtInvertsTransform ==
    (phase = "new_from_bwt" /\ answer.op = "ibwt") => answer.bytes = text

\* C14: search(P) returns the positions in suffix-array order: its k-th
\* value is SA[top + k] for the range [top, bottom) of the backward search,
\* SA being the suffix array of the text.
C14_SearchInSuffixOrder ==
    (answer.op = "search" /\ ~answer.panicked /\ ~answer.range.none) =>
        /\ Len(answer.positions) = answer.range.bottom - answer.range.top
        /\ \A k \in 1..Len(answer.positions) :
              answer.positions[k] = sorted_suffixes(text)[answer.range.top + k]

\* C19: for every byte c and every k in 0..n+1, nearest(k, c) is the number
\* of bytes of the transform smaller than c plus the number of bytes equal
\* to c among its first k bytes, c = 0 and bytes larger than every byte of
\* the transform included.
C19_NearestIsRank ==
    answer.op = "nearest" =>
        /\ ~answer.panicked
        /\ answer.count =
              Cardinality({j \in 1..Len(fm.data) : fm.data[j] < answer.query[1]})
              + Cardinality({j \in 1..answer.idx : fm.data[j] = answer.query[1]})

\* C20: after the index is built, lf_vec[i] (index[i]) is SA[i], the
\* position in the text of the suffix of row i, for every row i.
C20_SuffixLengthIsPosition ==
    phase \in {"new", "new_from_bwt"} =>
        /\ Len(fm.lf_vec) = Len(text) + 1
        /\ \A i \in 1..Len(fm.lf_vec) : fm.lf_vec[i] = sorted_suffixes(text)[i]

\* the values of a sequence of distinct numbers in increasing order
sorted(positions) ==
    [r \in 1..Len(positions) |->
        CHOOSE p \in {positions[k] : k \in 1..Len(positions)} :
            Cardinality({q \in {positions[k] : k \in 1..Len(positions)} : q < p}) = r - 1]

\* C15 as the specification states it: for S = "Hello, Hello, Hello" the
\* index built from S gives count("llo") = 3 and locate("llo"), sorted,
\* is [3, 10, 17].
C15_HelloExample ==
    (phase = "new" /\ text = Hello /\ answer.query = llo) =>
        /\ answer.op = "count" => answer.count = 3
        /\ answer.op = "search" => sorted(answer.positions) = <<3, 10, 17>>

\* C15, amended: for S = "Hello, Hello, Hello" the index built from S gives
\* count("llo") = 3 and locate("llo"), sorted, is [2, 9, 16], the positions
\* counted from 0 where "llo" starts.
C15_HelloExampleFromZero ==
    /\ text = Hello => phase \notin {"bwt_panicked", "new_panicked"}
    /\ (phase = "new" /\ text = Hello /\ answer.query = llo) =>
          /\ ~answer.panicked
          /\ answer.op = "count" => answer.count = 3
          /\ answer.op = "search" =>
                /\ sorted(answer.positions) = <<2, 9, 16>>
                /\ answer.positions = <<16, 9, 2>>

\* C15 witness: the search for "llo" in the index of the text has returned
C15_Witness ==
    /\ phase = "new"
    /\ text = Hello
    /\ answer.op = "search"
    /\ answer.query = llo
    /\ ~answer.panicked
    /\ Len(answer.positions) = 3

\* C16: reading a serialized index back checks the invariants of the index
\* (the transform has n+1 bytes and the tables have its length): a stream
\* whose parts have mismatched lengths yields no index.
C16_DecodeValidates ==
    phase = "decoded" =>
        /\ Len(fm.data) = Len(text) + 1
        /\ Len(fm.cache) = Len(fm.data)
        /\ Len(fm.lf_vec) = Len(fm.data)
        /\ \A j \in 1..Len(fm.data) : fm.data[j] < Len(fm.occ_map)

=============================================================================
